---- MODULE Spec2Model ----
(***************************************************************************)
(* Matreshka arbitrage core: the opportunity scanner, the supervisor's     *)
(* event handlers, the risk gate, the execution engine and the             *)
(* performance tracker, as a state machine.                                *)
(*                                                                         *)
(* Every `await` of an async handler is a point where the other handlers   *)
(* and timer callbacks may run; the code between two awaits is one step.   *)
(* A synchronous emit() runs its listeners inside the emitting step.       *)
(*                                                                         *)
(* Amounts and prices are integers.  profitPercent is kept in units of     *)
(* 0.0001 %, so that the risk gate's 0.1 % is MinProfitPercent = 1000, and *)
(* the fee rate 0.001 is a division by FeeRateDivisor.                     *)
(* Time passes in steps of TimeStep milliseconds and is kept as the time   *)
(* left on each pending cooldown timer.  The 1 s scan interval and the     *)
(* 2 s mock execution delay are shorter than a step, so their callbacks    *)
(* may fire at any moment.                                                 *)
(*                                                                         *)
(* The market data cache and the scanner's expiry sweep read Date.now():   *)
(* `now` is that clock, in ms since the process started.                   *)
(***************************************************************************)
EXTENDS Integers, Sequences, FiniteSets, TLC

(***************************************************************************)
(* Bounds of the model.                                                    *)
(***************************************************************************)
MaxOpps == 2
MaxBurst == 5
MaxScans == 1
MaxTimers == 2
MaxTicks == 3
MaxFetches == 2
MaxStarts == 2
MaxCalls == 2
MaxFailures == 5
MaxTrades == 3
MaxRecorded == 1001

(***************************************************************************)
(* Program constants.                                                      *)
(***************************************************************************)
MAX_OPPORTUNITIES == 50
maxTotalExposureUSD == 100000
maxLossPerDayUSD == 5000
RiskCooldownMs == 60000
FeeRateDivisor == 1000
MinProfitPercent == 1000
OPPORTUNITY_TTL_MS == 30000
TICKER_UPDATE_INTERVAL == 5000
MockExecutionMs == 2000
CIRCUIT_FAILURES == 5
SIMPLE_ARB_MIN_PROFIT == 5000
SIMPLE_ARB_MAX_POSITION == 5000
FUNDING_RATE_MIN_PROFIT == 10000
FUNDING_RATE_MAX_POSITION == 10000
TRIANGULAR_MIN_PROFIT == 3000
TRIANGULAR_MAX_POSITION == 2000
SimplifiedTradeAmount == 1000

TimeStep == RiskCooldownMs \div 2

\* The snapshot age after which a ticker counts as stale: 10 s, two ticker
\* update intervals.
STALE_AFTER == 2 * TICKER_UPDATE_INTERVAL

\* Exchanges of the simple-arbitrage strategy and its symbol.
Exchanges == {"binance", "whitebit"}
Symbol == "BTC/USDT"

\* The production configuration's strategies: the exchanges of the simple
\* arbitrage in configuration order, the exchange of the triangular
\* arbitrage, the spot and the perpetual exchange of the funding-rate
\* arbitrage.  The thresholds above are minProfitPercent 0.5, 1.0 and 0.3.
SimpleArbExchanges == <<"whitebit", "binance", "okx">>
TriangularExchange == "binance"
SpotExchange == "binance"
PerpExchange == "binance_perpetual"

VARIABLES
    isRunning,              \* MatreshkaCore.isRunning
    isScanning,             \* OpportunityScanner.isScanning
    isPaused,               \* OpportunityScanner.isPaused
    scanInterval,           \* TRUE while the scan setInterval is registered
    scansInFlight,          \* scan() calls suspended at an await of market data
    opps,                   \* every opportunity created so far; index = id
    activeOpportunities,    \* ids in the scanner's Map, in insertion order
    handler,                \* handler[id]: position of handleOpportunityFound
    activeExecutions,       \* ExecutionEngine.activeExecutions: id -> record
    statusTrace,            \* per execution, every value assigned to .status
    executionStarted,       \* ids for which executionStarted was emitted
    terminalEvents,         \* per started execution, the executionCompleted
                            \* and executionFailed events the engine emitted
    riskApproved,           \* ids whose risk assessment came back approved
    riskDecision,           \* riskDecision[id]: what assessOpportunity returned
    portfolioApproved,      \* ids whose portfolio check came back canExecute
    emergencyStop,          \* position of handleEmergencyStop
    cooldownTimers,         \* ms left on each pending resume timer, oldest first
    cooldownLeft,           \* ms left of the 60 s that follow the latest riskLimitExceeded
    tracker,                \* PerformanceTracker counters (executionsLength =
                            \* executions.length, dailyProfit = today's entry)
    expires,                \* expires[id]: opportunity.expires, ms on the clock
    cleanupIntervals,       \* expiry-sweep setIntervals registered so far
    now,                    \* Date.now()
    expiredEmitted,         \* the ids of the opportunityExpired events, in
                            \* the order emitted
    lastSweep,              \* <<Date.now() of the latest expiry sweep>>
    tickers,                \* MarketDataManager.tickers: exchange -> snapshot
    fetches,                \* updateTicker calls awaiting fetchTicker
    lastObserved,           \* per exchange, timestamp of the ticker that the
                            \* latest getTicker call returned
    builtFrom,              \* per opportunity built from the cache: the clock
                            \* and the oldest snapshot timestamp it used
    mode,                   \* --mode of the process: "monitor" or "execute"
    monitorInterval,        \* TRUE once startMonitorMode registered its interval
    hbCalls,                \* HummingbotConnector.executeArbitrageOpportunity
                            \* calls: plan, position, orders placed, result
    circuitBreakers,        \* ErrorHandler.circuitBreakers: key -> breaker
    failureTimes,           \* per key, Date.now() of every HIGH or CRITICAL
                            \* error handled since the breakers were cleared
    handed,                 \* the execution objects handed to the
                            \* PerformanceTracker: as given to the latest
                            \* call, as the call left them, and the call
    market,                 \* what the market data manager serves to a scan
    scanLog,                \* the find* calls of the scans so far: strategy
                            \* and the opportunity returned, if any
    supervisor,             \* MatreshkaCore: start() calls suspended in their
                            \* awaits, start() calls rejected, the live
                            \* heartbeat and main-loop timers, and whether
                            \* heartbeatInterval and mainLoopInterval hold
                            \* the handle of a live timer
    proc                    \* the Node process: whether it has exited, and
                            \* whether main's shutdown() is suspended

scannerVars == <<isScanning, isPaused, scanInterval, scansInFlight, opps,
                 activeOpportunities, expires, cleanupIntervals>>
pipelineVars == <<handler, activeExecutions, statusTrace, executionStarted,
                  terminalEvents,
                  riskApproved, riskDecision, portfolioApproved>>
cooldownVars == <<cooldownTimers, cooldownLeft>>
clockVars == <<now, expiredEmitted, lastSweep>>
marketVars == <<tickers, fetches, lastObserved, builtFrom>>
processVars == <<mode, monitorInterval, hbCalls>>
breakerVars == <<circuitBreakers, failureTimes>>
trackerApiVars == <<handed>>
strategyVars == <<market, scanLog>>
lifecycleVars == <<supervisor, proc>>
utilityVars == <<breakerVars, trackerApiVars, strategyVars, lifecycleVars>>
vars == <<isRunning, isScanning, isPaused, scanInterval,
          scansInFlight, opps, activeOpportunities, handler, activeExecutions,
          statusTrace, executionStarted,
          terminalEvents, riskApproved, riskDecision,
          portfolioApproved, emergencyStop, cooldownTimers, cooldownLeft, tracker,
          expires, cleanupIntervals, now, expiredEmitted, lastSweep,
          tickers, fetches, lastObserved, builtFrom,
          mode, monitorInterval, hbCalls,
          circuitBreakers, failureTimes, handed, market, scanLog,
          supervisor, proc>>

(***************************************************************************)
(* Pure helpers.                                                           *)
(***************************************************************************)
RECURSIVE SumOver(_, _)
SumOver(S, f) ==
    IF S = {} THEN 0
    ELSE LET x == CHOOSE y \in S : TRUE IN f[x] + SumOver(S \ {x}, f)

\* OpportunityScanner.calculateTradingFee: notional * 0.001
calculateTradingFee(notionalValue) == notionalValue \div FeeRateDivisor

\* The opportunity findSimpleArbitrageOpportunities builds for the venue of
\* the best ask, the venue of the best bid, a trade size and the two prices.
SimpleArbitrage(buyExchange, sellExchange, maxAmount, buyPrice, sellPrice) ==
    LET buyFee == calculateTradingFee(maxAmount * buyPrice)
        sellFee == calculateTradingFee(maxAmount * sellPrice)
        grossProfit == maxAmount * (sellPrice - buyPrice)
        netProfit == grossProfit - buyFee - sellFee
        netProfitPercent ==
            (netProfit * 1000) \div ((maxAmount * buyPrice) \div 1000)
    IN  [type |-> "simple",
         profit |-> netProfit,
         profitPercent |-> netProfitPercent,
         volume |-> maxAmount,
         paths |-> << [step |-> 1, exchange |-> buyExchange,
                       symbol |-> Symbol, side |-> "buy",
                       amount |-> maxAmount, price |-> buyPrice,
                       fee |-> buyFee],
                      [step |-> 2, exchange |-> sellExchange,
                       symbol |-> Symbol, side |-> "sell",
                       amount |-> maxAmount, price |-> sellPrice,
                       fee |-> sellFee] >>]

\* The same with binance as the venue to buy at and whitebit as the venue to
\* sell at.
SimpleOpportunity(maxAmount, buyPrice, sellPrice) ==
    SimpleArbitrage("binance", "whitebit", maxAmount, buyPrice, sellPrice)

\* Market situations a scan may meet: a wide spread on a deep book, a spread
\* that barely covers the fees, and a wide spread on a book deeper than the
\* exposure limit.
GoodCandidate == SimpleOpportunity(60000, 100, 101)
ThinCandidate == SimpleOpportunity(1000, 1000, 1003)
HugeCandidate == SimpleOpportunity(101000, 100, 101)
Candidates == {GoodCandidate, ThinCandidate, HugeCandidate}

\* assessOpportunity with the exposure limit applied to the opportunity
\* together with the executions under way.
assessOpportunityWithExposure(opportunity) ==
    LET executing == {id \in DOMAIN activeExecutions :
                         activeExecutions[id].status = "executing"}
        exposure == SumOver(executing, [id \in executing |-> opps[id].volume])
    IN  IF opportunity.profitPercent < MinProfitPercent
        THEN [approved |-> FALSE, reason |-> "Insufficient profit margin"]
        ELSE IF opportunity.volume + exposure > maxTotalExposureUSD
        THEN [approved |-> FALSE, reason |-> "Exceeds maximum exposure limit"]
        ELSE [approved |-> TRUE, reason |-> "none"]

\* RiskManager.assessOpportunity
assessOpportunity(opportunity) ==
    IF opportunity.profitPercent < MinProfitPercent
    THEN [approved |-> FALSE, reason |-> "Insufficient profit margin"]
    ELSE IF opportunity.volume > maxTotalExposureUSD
    THEN [approved |-> FALSE, reason |-> "Exceeds maximum exposure limit"]
    ELSE [approved |-> TRUE, reason |-> "none"]

\* PortfolioManager.canExecuteOpportunity
canExecuteOpportunity(opportunity) == [canExecute |-> TRUE]

Ids == 1..Len(opps)

\* ExecutionEngine.getActiveExecutions: the values of the activeExecutions
\* Map, each with its opportunityId.
getActiveExecutions(executions) ==
    {executions[id] : id \in DOMAIN executions}

Executing == {id \in DOMAIN activeExecutions :
                 activeExecutions[id].status = "executing"}

\* The PerformanceTracker's fields after construction and after reset().
\* executionsLength = executions.length, dailyProfit = today's entry of
\* dailyProfits.
NewTracker ==
    [totalTrades |-> 0, successfulTrades |-> 0,
     totalProfitUSD |-> 0, totalFeesUSD |-> 0,
     dailyProfit |-> 0, executionsLength |-> 0,
     executionTimes |-> <<>>, profits |-> <<>>,
     dailyReturns |-> <<>>, peakValue |-> 0, maxDrawdown |-> 0]

(***************************************************************************)
(* Initial state: the supervisor and its managers have been constructed    *)
(* and the event handlers wired; nothing has been started.  The process    *)
(* was launched with the given --mode.                                     *)
(***************************************************************************)
\* MatreshkaCore after its constructor: not started, no timer.
NewSupervisor ==
    [starting |-> 0, rejected |-> 0,
     heartbeatIntervals |-> 0, mainLoopIntervals |-> 0,
     heartbeatInterval |-> FALSE, mainLoopInterval |-> FALSE]

\* The process once main() has registered its signal listeners.
NewProcess == [exited |-> FALSE, shuttingDown |-> FALSE]

InitCommon(m) ==
    /\ isRunning = FALSE
    /\ isScanning = FALSE
    /\ isPaused = FALSE
    /\ scanInterval = FALSE
    /\ scansInFlight = 0
    /\ opps = <<>>
    /\ activeOpportunities = <<>>
    /\ handler = <<>>
    /\ activeExecutions = <<>>
    /\ statusTrace = <<>>
    /\ executionStarted = {}
    /\ terminalEvents = <<>>
    /\ riskApproved = {}
    /\ riskDecision = <<>>
    /\ portfolioApproved = {}
    /\ emergencyStop = "idle"
    /\ cooldownTimers = <<>>
    /\ cooldownLeft = 0
    /\ tracker = NewTracker
    /\ expires = <<>>
    /\ cleanupIntervals = 0
    /\ now = 0
    /\ expiredEmitted = <<>>
    /\ lastSweep = <<>>
    /\ tickers = <<>>
    /\ fetches = <<>>
    /\ lastObserved = <<>>
    /\ builtFrom = <<>>
    /\ mode = m
    /\ monitorInterval = FALSE
    /\ hbCalls = <<>>
    /\ circuitBreakers = <<>>
    /\ failureTimes = <<>>
    /\ handed = <<>>
    /\ scanLog = <<>>
    /\ supervisor = NewSupervisor
    /\ proc = NewProcess

\* No strategy-level market snapshot: the scans deliver the candidates above.
InitMode(m) ==
    /\ InitCommon(m)
    /\ market = <<>>

\* main() without --mode=monitor runs in execute mode.
Init == InitMode("execute")

InitMonitor == InitMode("monitor")

(***************************************************************************)
(* MatreshkaCore.start: refuses when already running, otherwise starts     *)
(* the managers and the scanner (OpportunityScanner.start).                *)
(***************************************************************************)
\* startHeartbeat and startMainLoop: each registers an interval and keeps
\* its handle, in place of the handle kept before.
startTimers(s) ==
    [s EXCEPT !.heartbeatIntervals = @ + 1, !.heartbeatInterval = TRUE,
              !.mainLoopIntervals = @ + 1, !.mainLoopInterval = TRUE]

\* stop(): clearInterval of the two handles kept; clearing a handle whose
\* timer was cleared before does nothing.
stopTimers(s) ==
    [s EXCEPT
        !.heartbeatIntervals = IF s.heartbeatInterval THEN @ - 1 ELSE @,
        !.heartbeatInterval = FALSE,
        !.mainLoopIntervals = IF s.mainLoopInterval THEN @ - 1 ELSE @,
        !.mainLoopInterval = FALSE]

CoreStart ==
    /\ ~isRunning
    /\ supervisor.starting = 0
    /\ cleanupIntervals < MaxStarts
    /\ isRunning' = TRUE
    /\ supervisor' = startTimers(supervisor)
    /\ IF isScanning
       THEN UNCHANGED <<isScanning, isPaused, scanInterval, cleanupIntervals>>
       ELSE /\ isScanning' = TRUE
            /\ isPaused' = FALSE
            /\ scanInterval' = TRUE
            /\ cleanupIntervals' = cleanupIntervals + 1
    /\ UNCHANGED <<scansInFlight, opps, activeOpportunities, expires>>
    /\ UNCHANGED pipelineVars
    /\ UNCHANGED cooldownVars
    /\ UNCHANGED <<emergencyStop, tracker, proc>>
    /\ UNCHANGED <<clockVars, marketVars, processVars>>
    /\ UNCHANGED <<breakerVars, trackerApiVars, strategyVars>>

(***************************************************************************)
(* The scan setInterval callback: when not paused it calls scan(), which   *)
(* runs up to its first await of market data.                              *)
(***************************************************************************)
ScanTick ==
    /\ scanInterval
    /\ ~isPaused
    /\ scansInFlight < MaxScans
    /\ scansInFlight' = scansInFlight + 1
    /\ UNCHANGED <<isScanning, isPaused, scanInterval, opps,
                   activeOpportunities, expires, cleanupIntervals>>
    /\ UNCHANGED pipelineVars
    /\ UNCHANGED cooldownVars
    /\ UNCHANGED <<isRunning, emergencyStop, tracker>>
    /\ UNCHANGED <<clockVars, marketVars, processVars, utilityVars>>

\* addOpportunity with the eviction of the oldest entry left out.
addOpportunityWithoutEviction(active, id) == Append(active, id)

\* OpportunityScanner.addOpportunity: the Map after storing a new id.
addOpportunity(active, id) ==
    Append(IF Len(active) >= MAX_OPPORTUNITIES THEN Tail(active) ELSE active,
           id)

(***************************************************************************)
(* A suspended scan() resumes with market data, builds an opportunity and  *)
(* stores it with addOpportunity; the opportunityFound emit runs           *)
(* handleOpportunityFound up to its await of the risk assessment.  The     *)
(* scan then goes on to its next symbol.                                   *)
(***************************************************************************)
ScanDeliverUpTo(limit, candidates) ==
    /\ scansInFlight > 0
    /\ Len(opps) < limit
    /\ \E c \in candidates :
          /\ opps' = Append(opps, c)
          /\ activeOpportunities' =
                 addOpportunity(activeOpportunities, Len(opps) + 1)
          /\ handler' = Append(handler, "risk")
    /\ expires' = Append(expires, now + OPPORTUNITY_TTL_MS)
    /\ UNCHANGED <<isScanning, isPaused, scanInterval, scansInFlight,
                   cleanupIntervals>>
    /\ UNCHANGED <<activeExecutions, statusTrace, executionStarted,
                   terminalEvents,
                   riskApproved, riskDecision, portfolioApproved>>
    /\ UNCHANGED cooldownVars
    /\ UNCHANGED <<isRunning, emergencyStop, tracker>>
    /\ UNCHANGED <<clockVars, processVars, breakerVars, trackerApiVars,
                   lifecycleVars>>

ScanDeliver ==
    /\ ScanDeliverUpTo(MaxOpps, Candidates)
    /\ UNCHANGED <<marketVars, strategyVars>>

ScanDeliverBurst ==
    /\ ScanDeliverUpTo(MaxBurst, {GoodCandidate})
    /\ UNCHANGED <<marketVars, strategyVars>>

\* scan() returns after its last strategy and symbol.
ScanFinish ==
    /\ scansInFlight > 0
    /\ scansInFlight' = scansInFlight - 1
    /\ UNCHANGED <<isScanning, isPaused, scanInterval, opps,
                   activeOpportunities, expires, cleanupIntervals>>
    /\ UNCHANGED pipelineVars
    /\ UNCHANGED cooldownVars
    /\ UNCHANGED <<isRunning, emergencyStop, tracker>>
    /\ UNCHANGED <<clockVars, marketVars, processVars, utilityVars>>

(***************************************************************************)
(* PerformanceTracker                                                      *)
(***************************************************************************)
recordExecutionStart(t) == [t EXCEPT !.totalTrades = @ + 1]

\* maxDrawdown, a fraction, is kept in units of 1 / DrawdownScale.
DrawdownScale == 10000

\* dailyReturns keeps its last DailyReturnsKept entries.
DailyReturnsKept == 30

\* updateRiskMetrics with the peak taken from the current total alone.
updateRiskMetricsWithoutPeak(t, profit) ==
    LET dailyReturns == Append(t.dailyReturns, profit)
    IN  [t EXCEPT
            !.peakValue = t.totalProfitUSD,
            !.dailyReturns =
                IF Len(dailyReturns) > DailyReturnsKept
                THEN SubSeq(dailyReturns,
                            Len(dailyReturns) - DailyReturnsKept + 1,
                            Len(dailyReturns))
                ELSE dailyReturns]

\* PerformanceTracker.updateRiskMetrics, called by recordExecutionComplete
\* after totalProfitUSD was raised.
updateRiskMetrics(t, profit) ==
    LET peakValue == IF t.peakValue > t.totalProfitUSD
                     THEN t.peakValue ELSE t.totalProfitUSD
        currentDrawdown ==
            ((peakValue - t.totalProfitUSD) * DrawdownScale) \div peakValue
        dailyReturns == Append(t.dailyReturns, profit)
    IN  [t EXCEPT
            !.peakValue = peakValue,
            !.maxDrawdown = IF peakValue > 0 /\ currentDrawdown > @
                            THEN currentDrawdown ELSE @,
            !.dailyReturns =
                IF Len(dailyReturns) > DailyReturnsKept
                THEN SubSeq(dailyReturns,
                            Len(dailyReturns) - DailyReturnsKept + 1,
                            Len(dailyReturns))
                ELSE dailyReturns]

recordExecutionComplete(t, execution) ==
    updateRiskMetrics(
        [t EXCEPT !.successfulTrades = @ + 1,
                  !.totalProfitUSD = @ + execution.totalProfit,
                  !.totalFeesUSD = @ + execution.totalFees,
                  !.executionTimes = IF execution.executionTime > 0
                                     THEN Append(@, execution.executionTime)
                                     ELSE @,
                  !.profits = Append(@, execution.totalProfit),
                  !.executionsLength = @ + 1,
                  !.dailyProfit = @ + execution.totalProfit],
        execution.totalProfit)

\* recordExecutionFailure, the tracker's fields.
recordExecutionFailure(t, execution) ==
    [t EXCEPT !.executionsLength = @ + 1]

\* recordExecutionFailure, the execution object it was handed: status =
\* 'failed' and the error's message pushed.
executionAfterFailure(execution, message) ==
    [execution EXCEPT !.status = "failed", !.errors = Append(@, message)]

\* PerformanceTracker.reset
reset(t) == NewTracker

\* PerformanceTracker.importData with a data object that carries only
\* dailyProfits.
importData(t, dailyProfit) == [t EXCEPT !.dailyProfit = dailyProfit]

\* Persisted days: one that ended with a loss of maxLossPerDayUSD.
ImportedDailyProfits == {-maxLossPerDayUSD}

\* Persisted tracker data is restored before the system is started.
ImportData ==
    /\ ~isRunning
    /\ \E d \in ImportedDailyProfits :
          /\ tracker.dailyProfit # d
          /\ tracker' = importData(tracker, d)
    /\ UNCHANGED scannerVars
    /\ UNCHANGED pipelineVars
    /\ UNCHANGED cooldownVars
    /\ UNCHANGED <<isRunning, emergencyStop>>
    /\ UNCHANGED <<clockVars, marketVars, processVars, utilityVars>>

\* handleOpportunityFound with the return on a risk rejection left out.
RiskResolvedWithoutReturn(id) ==
    /\ id \in Ids
    /\ handler[id] = "risk"
    /\ LET riskApproval == assessOpportunity(opps[id])
       IN  /\ handler' = [handler EXCEPT ![id] = "portfolio"]
           /\ riskDecision' = (id :> riskApproval) @@ riskDecision
           /\ riskApproved' = IF riskApproval.approved
                              THEN riskApproved \cup {id}
                              ELSE riskApproved
    /\ UNCHANGED <<activeExecutions, statusTrace, executionStarted,
                   terminalEvents,
                   portfolioApproved>>
    /\ UNCHANGED scannerVars
    /\ UNCHANGED cooldownVars
    /\ UNCHANGED <<isRunning, emergencyStop, tracker>>
    /\ UNCHANGED <<clockVars, marketVars, processVars, utilityVars>>

(***************************************************************************)
(* handleOpportunityFound after the risk assessment resolved: return on a  *)
(* rejection, otherwise call the portfolio check and await it.             *)
(***************************************************************************)
RiskResolved(id) ==
    /\ id \in Ids
    /\ handler[id] = "risk"
    /\ LET riskApproval == assessOpportunity(opps[id])
       IN  /\ riskDecision' = (id :> riskApproval) @@ riskDecision
           /\ IF ~riskApproval.approved
              THEN /\ handler' = [handler EXCEPT ![id] = "returned"]
                   /\ UNCHANGED riskApproved
              ELSE /\ handler' = [handler EXCEPT ![id] = "portfolio"]
                   /\ riskApproved' = riskApproved \cup {id}
    /\ UNCHANGED <<activeExecutions, statusTrace, executionStarted,
                   terminalEvents,
                   portfolioApproved>>
    /\ UNCHANGED scannerVars
    /\ UNCHANGED cooldownVars
    /\ UNCHANGED <<isRunning, emergencyStop, tracker>>
    /\ UNCHANGED <<clockVars, marketVars, processVars, utilityVars>>

\* The record ExecutionEngine.executeOpportunity creates, after the
\* assignment status = 'executing'.
NewExecution(id) ==
    [opportunityId |-> id, status |-> "executing", trades |-> <<>>,
     totalProfit |-> 0, totalFees |-> 0, executionTime |-> 0,
     errors |-> <<>>]

(***************************************************************************)
(* handleOpportunityFound after the portfolio check resolved: return on a  *)
(* refusal, otherwise executeOpportunity creates the execution, moves it   *)
(* pending -> executing, emits executionStarted (handleExecutionStarted    *)
(* records the start) and awaits the 2 s mock delay.                       *)
(***************************************************************************)
PortfolioResolved(id) ==
    /\ id \in Ids
    /\ handler[id] = "portfolio"
    /\ LET portfolioApproval == canExecuteOpportunity(opps[id])
       IN  IF ~portfolioApproval.canExecute
           THEN /\ handler' = [handler EXCEPT ![id] = "returned"]
                /\ UNCHANGED <<activeExecutions, statusTrace,
                               executionStarted, terminalEvents,
                               portfolioApproved, tracker>>
           ELSE /\ handler' = [handler EXCEPT ![id] = "executing"]
                /\ portfolioApproved' = portfolioApproved \cup {id}
                /\ activeExecutions' = (id :> NewExecution(id))
                                           @@ activeExecutions
                /\ statusTrace' = (id :> <<"pending", "executing">>)
                                      @@ statusTrace
                /\ executionStarted' = executionStarted \cup {id}
                /\ terminalEvents' = (id :> <<>>) @@ terminalEvents
                /\ tracker' = recordExecutionStart(tracker)
    /\ UNCHANGED <<riskApproved, riskDecision>>
    /\ UNCHANGED scannerVars
    /\ UNCHANGED cooldownVars
    /\ UNCHANGED <<isRunning, emergencyStop>>
    /\ UNCHANGED <<clockVars, marketVars, processVars, utilityVars>>

(***************************************************************************)
(* executeOpportunity after the mock delay: status = 'completed',          *)
(* totalProfit = opportunity.profit, emit executionCompleted               *)
(* (handleExecutionCompleted records the completion and re-emits).  When a *)
(* listener of the re-emitted event throws, the catch block sets status =  *)
(* 'failed' and emits executionFailed: handleExecutionFailed calls         *)
(* recordExecutionFailure, which sets status = 'failed' again and pushes   *)
(* the error message.                                                      *)
(***************************************************************************)
ExecutionTimerFired(id, listenerThrows) ==
    /\ id \in Ids
    /\ handler[id] = "executing"
    /\ LET completed == [activeExecutions[id] EXCEPT
                             !.status = "completed",
                             !.totalProfit = opps[id].profit,
                             !.executionTime = MockExecutionMs]
           failed == executionAfterFailure(
                         [completed EXCEPT !.status = "failed"],
                         "listener error")
           recorded == recordExecutionComplete(tracker, completed)
       IN  IF ~listenerThrows
           THEN /\ activeExecutions' =
                       [activeExecutions EXCEPT ![id] = completed]
                /\ statusTrace' =
                       [statusTrace EXCEPT ![id] = Append(@, "completed")]
                /\ terminalEvents' =
                       [terminalEvents EXCEPT
                           ![id] = Append(@, "executionCompleted")]
                /\ tracker' = recorded
           ELSE /\ activeExecutions' =
                       [activeExecutions EXCEPT ![id] = failed]
                /\ statusTrace' =
                       [statusTrace EXCEPT
                           ![id] = @ \o <<"completed", "failed", "failed">>]
                /\ terminalEvents' =
                       [terminalEvents EXCEPT
                           ![id] = @ \o <<"executionCompleted",
                                          "executionFailed">>]
                /\ tracker' = recordExecutionFailure(recorded, failed)
    /\ handler' = [handler EXCEPT ![id] = "returned"]
    /\ UNCHANGED <<executionStarted, riskApproved, riskDecision,
                   portfolioApproved>>
    /\ UNCHANGED scannerVars
    /\ UNCHANGED cooldownVars
    /\ UNCHANGED <<isRunning, emergencyStop>>
    /\ UNCHANGED <<clockVars, marketVars, processVars, utilityVars>>

(***************************************************************************)
(* handleEmergencyStop.  The riskManager's emergencyStop event arrives     *)
(* while the system runs; the handler first awaits the engine's            *)
(* emergencyStop(), then stops the scanner, then awaits the portfolio's    *)
(* emergencyExit() when configured, and finally emits emergencyStop.       *)
(***************************************************************************)
EmergencyStopSignal ==
    /\ isRunning
    /\ emergencyStop = "idle"
    /\ emergencyStop' = "engineStop"
    /\ UNCHANGED scannerVars
    /\ UNCHANGED pipelineVars
    /\ UNCHANGED cooldownVars
    /\ UNCHANGED <<isRunning, tracker>>
    /\ UNCHANGED <<clockVars, marketVars, processVars, utilityVars>>

EmergencyStopContinue(emergencyExitEnabled) ==
    /\ emergencyStop = "engineStop"
    /\ IF isScanning
       THEN /\ isScanning' = FALSE
            /\ scanInterval' = FALSE
            /\ activeOpportunities' = <<>>
       ELSE UNCHANGED <<isScanning, scanInterval, activeOpportunities>>
    /\ emergencyStop' = IF emergencyExitEnabled THEN "exit" ELSE "done"
    /\ UNCHANGED <<isPaused, scansInFlight, opps, expires, cleanupIntervals>>
    /\ UNCHANGED pipelineVars
    /\ UNCHANGED cooldownVars
    /\ UNCHANGED <<isRunning, tracker>>
    /\ UNCHANGED <<clockVars, marketVars, processVars, utilityVars>>

EmergencyExitDone ==
    /\ emergencyStop = "exit"
    /\ emergencyStop' = "done"
    /\ UNCHANGED scannerVars
    /\ UNCHANGED pipelineVars
    /\ UNCHANGED cooldownVars
    /\ UNCHANGED <<isRunning, tracker>>
    /\ UNCHANGED <<clockVars, marketVars, processVars, utilityVars>>

(***************************************************************************)
(* handleRiskLimitExceeded: pause the scanner, emit riskAlert and set a    *)
(* 60 s timer that resumes the scanner.  The event comes from the risk     *)
(* checks of the running system.                                           *)
(***************************************************************************)
RiskLimitExceeded ==
    /\ isRunning
    /\ Len(cooldownTimers) < MaxTimers
    /\ isPaused' = TRUE
    /\ cooldownTimers' = Append(cooldownTimers, RiskCooldownMs)
    /\ cooldownLeft' = RiskCooldownMs
    /\ UNCHANGED <<isScanning, scanInterval, scansInFlight, opps,
                   activeOpportunities, expires, cleanupIntervals>>
    /\ UNCHANGED pipelineVars
    /\ UNCHANGED <<isRunning, emergencyStop, tracker>>
    /\ UNCHANGED <<clockVars, marketVars, processVars, utilityVars>>

\* The cooldown timer's callback: OpportunityScanner.resume.
CooldownTimerFired ==
    /\ cooldownTimers # <<>>
    /\ Head(cooldownTimers) = 0
    /\ isPaused' = FALSE
    /\ cooldownTimers' = Tail(cooldownTimers)
    /\ UNCHANGED cooldownLeft
    /\ UNCHANGED <<isScanning, scanInterval, scansInFlight, opps,
                   activeOpportunities, expires, cleanupIntervals>>
    /\ UNCHANGED pipelineVars
    /\ UNCHANGED <<isRunning, emergencyStop, tracker>>
    /\ UNCHANGED <<clockVars, marketVars, processVars, utilityVars>>

\* TimeStep ms pass while a timer is pending; a due timer fires before more
\* time passes.
Tick ==
    /\ cooldownTimers # <<>>
    /\ Head(cooldownTimers) > 0
    /\ cooldownTimers' = [i \in 1..Len(cooldownTimers) |->
                             cooldownTimers[i] - TimeStep]
    /\ cooldownLeft' = cooldownLeft - TimeStep
    /\ UNCHANGED scannerVars
    /\ UNCHANGED pipelineVars
    /\ UNCHANGED <<isRunning, emergencyStop, tracker>>
    /\ UNCHANGED <<clockVars, marketVars, processVars, utilityVars>>

Next ==
    \/ CoreStart
    \/ ScanTick
    \/ ScanDeliver
    \/ ScanFinish
    \/ \E id \in Ids : RiskResolved(id)
    \/ \E id \in Ids : PortfolioResolved(id)
    \/ \E id \in Ids, listenerThrows \in BOOLEAN :
          ExecutionTimerFired(id, listenerThrows)
    \/ EmergencyStopSignal
    \/ \E emergencyExitEnabled \in BOOLEAN :
          EmergencyStopContinue(emergencyExitEnabled)
    \/ EmergencyExitDone
    \/ RiskLimitExceeded
    \/ CooldownTimerFired
    \/ Tick
    \/ ImportData

Spec == Init /\ [][Next]_vars

(***************************************************************************)
(* A burst of profitable opportunities and nothing else: no risk event,    *)
(* no emergency stop, no imported data.                                    *)
(***************************************************************************)
NextBurst ==
    \/ CoreStart
    \/ ScanTick
    \/ ScanDeliverBurst
    \/ ScanFinish
    \/ \E id \in Ids : RiskResolved(id)
    \/ \E id \in Ids : PortfolioResolved(id)
    \/ \E id \in Ids, listenerThrows \in BOOLEAN :
          ExecutionTimerFired(id, listenerThrows)

SpecBurst == Init /\ [][NextBurst]_vars

(***************************************************************************)
(* MatreshkaCore.stop: isRunning = false, then the scanner's stop() (clear *)
(* the scan interval and the active set; the expiry-sweep interval is kept *)
(* by nobody and stays registered), the engine's stop() (a log line) and   *)
(* the market data manager's stop() (clear the caches).                    *)
(***************************************************************************)
CoreStop ==
    /\ isRunning
    /\ isRunning' = FALSE
    /\ IF isScanning
       THEN /\ isScanning' = FALSE
            /\ scanInterval' = FALSE
            /\ activeOpportunities' = <<>>
       ELSE UNCHANGED <<isScanning, scanInterval, activeOpportunities>>
    /\ tickers' = <<>>
    /\ supervisor' = stopTimers(supervisor)
    /\ UNCHANGED <<isPaused, scansInFlight, opps, expires, cleanupIntervals>>
    /\ UNCHANGED pipelineVars
    /\ UNCHANGED cooldownVars
    /\ UNCHANGED <<emergencyStop, tracker, proc>>
    /\ UNCHANGED <<fetches, lastObserved, builtFrom>>
    /\ UNCHANGED <<clockVars, processVars>>
    /\ UNCHANGED <<breakerVars, trackerApiVars, strategyVars>>

\* OpportunityScanner.cleanupExpiredOpportunities: the ids the sweep deletes
\* at time t, in Map order.
cleanupExpiredOpportunities(active, exp, t) ==
    SelectSeq(active, LAMBDA id : exp[id] < t)

(***************************************************************************)
(* A callback of an expiry-sweep interval: every stored opportunity with   *)
(* expires < now is deleted and announced with opportunityExpired.         *)
(***************************************************************************)
ExpirySweep ==
    /\ cleanupIntervals > 0
    /\ LET removed == cleanupExpiredOpportunities(activeOpportunities,
                                                  expires, now)
           isRemoved(id) == \E i \in 1..Len(removed) : removed[i] = id
       IN  /\ activeOpportunities' =
                  SelectSeq(activeOpportunities, LAMBDA id : ~isRemoved(id))
           /\ expiredEmitted' = expiredEmitted \o removed
    /\ lastSweep' = <<now>>
    /\ UNCHANGED <<isScanning, isPaused, scanInterval, scansInFlight, opps,
                   expires, cleanupIntervals>>
    /\ UNCHANGED pipelineVars
    /\ UNCHANGED cooldownVars
    /\ UNCHANGED <<isRunning, emergencyStop, tracker, now>>
    /\ UNCHANGED <<marketVars, processVars, utilityVars>>

\* Date.now() moves on by step ms.
ClockTick(step) ==
    /\ now < MaxTicks * step
    /\ now' = now + step
    /\ UNCHANGED scannerVars
    /\ UNCHANGED pipelineVars
    /\ UNCHANGED cooldownVars
    /\ UNCHANGED <<isRunning, emergencyStop, tracker>>
    /\ UNCHANGED <<expiredEmitted, lastSweep>>
    /\ UNCHANGED <<marketVars, processVars, utilityVars>>

\* The sweep is watched every half TTL, a multiple of its 5 s interval.
SweepTick == ClockTick(OPPORTUNITY_TTL_MS \div 2)

(***************************************************************************)
(* The scanner's opportunities over their lifetime: found, handled by the  *)
(* supervisor, swept when expired, while the system is started and         *)
(* stopped.                                                                *)
(***************************************************************************)
NextSweep ==
    \/ CoreStart
    \/ CoreStop
    \/ ScanTick
    \/ ScanDeliver
    \/ ScanFinish
    \/ \E id \in Ids : RiskResolved(id)
    \/ \E id \in Ids : PortfolioResolved(id)
    \/ \E id \in Ids : ExecutionTimerFired(id, FALSE)
    \/ ExpirySweep
    \/ SweepTick

SpecSweep == Init /\ [][NextSweep]_vars

(***************************************************************************)
(* The scanner filled to its capacity: the first scan meets a wide or a    *)
(* thin spread, the ones after it a steady thin spread, until MaxOpps      *)
(* opportunities more than the capacity have been found.                   *)
(***************************************************************************)
MaxFound == MAX_OPPORTUNITIES + MaxOpps

ScanDeliverCap ==
    /\ ScanDeliverUpTo(MaxFound,
                       IF opps = <<>>
                       THEN {GoodCandidate, ThinCandidate}
                       ELSE {ThinCandidate})
    /\ UNCHANGED <<marketVars, strategyVars>>

\* OpportunityScanner.pause
ScannerPause ==
    /\ ~isPaused
    /\ isPaused' = TRUE
    /\ UNCHANGED <<isScanning, scanInterval, scansInFlight, opps,
                   activeOpportunities, expires, cleanupIntervals>>
    /\ UNCHANGED pipelineVars
    /\ UNCHANGED cooldownVars
    /\ UNCHANGED <<isRunning, emergencyStop, tracker>>
    /\ UNCHANGED <<clockVars, marketVars, processVars, utilityVars>>

\* OpportunityScanner.resume
ScannerResume ==
    /\ isPaused
    /\ isPaused' = FALSE
    /\ UNCHANGED <<isScanning, scanInterval, scansInFlight, opps,
                   activeOpportunities, expires, cleanupIntervals>>
    /\ UNCHANGED pipelineVars
    /\ UNCHANGED cooldownVars
    /\ UNCHANGED <<isRunning, emergencyStop, tracker>>
    /\ UNCHANGED <<clockVars, marketVars, processVars, utilityVars>>

\* The burst is found within one TTL: the clock stands at its start, and the
\* sweeps that run meet no expired opportunity.
NextCap ==
    \/ CoreStart
    \/ CoreStop
    \/ ScanTick
    \/ ScanDeliverCap
    \/ ScanFinish
    \/ ScannerPause
    \/ ScannerResume
    \/ ExpirySweep

SpecCap == Init /\ [][NextCap]_vars

(***************************************************************************)
(* MarketDataManager with live exchanges (no demo data provider).  A       *)
(* snapshot is kept by its timestamp.  Order books are fetched and cached  *)
(* the same way and are present whenever the ticker is.                    *)
(***************************************************************************)
\* MarketDataManager.getTicker: <<snapshot>>, or <<>> for null.
getTicker(tk, exchange) ==
    IF exchange \in DOMAIN tk THEN <<tk[exchange]>> ELSE <<>>

\* updateTicker up to its await of exchangeManager.fetchTicker.  The calls
\* come from fetchInitialData and from every firing of the ticker interval,
\* which does not wait for the previous round.
UpdateTickerBegin(exchange) ==
    /\ isRunning
    /\ Len(fetches) < MaxFetches
    /\ fetches' = Append(fetches, [exchange |-> exchange, requestedAt |-> now])
    /\ UNCHANGED <<tickers, lastObserved, builtFrom>>
    /\ UNCHANGED scannerVars
    /\ UNCHANGED pipelineVars
    /\ UNCHANGED cooldownVars
    /\ UNCHANGED <<isRunning, emergencyStop, tracker>>
    /\ UNCHANGED <<clockVars, processVars, utilityVars>>

\* How a fetch ends: with the exchange's timestamp (taken when the request
\* was served), without one (Date.now() is used), or with nothing.
FetchOutcomes == {"stamped", "unstamped", "null"}

\* What fetchTicker may resolve with besides null: a quote with both sides,
\* and one whose bid the exchange left out.
FullTicker == [bid |-> 100, ask |-> 101]

FetchedTickers == {FullTicker, [ask |-> 101]}

\* `ccxtTicker.<field> || 0`
OrZero(ccxtTicker, field) ==
    IF field \in DOMAIN ccxtTicker /\ ccxtTicker[field] # 0
    THEN ccxtTicker[field]
    ELSE 0

\* updateTicker after fetchTicker resolved: return on null, otherwise store
\* the snapshot under its key.
UpdateTickerEnd(i, outcome, ccxtTicker) ==
    /\ i \in 1..Len(fetches)
    /\ fetches' = [k \in 1..(Len(fetches) - 1) |->
                      IF k < i THEN fetches[k] ELSE fetches[k + 1]]
    /\ LET timestamp == IF outcome = "stamped"
                        THEN fetches[i].requestedAt
                        ELSE now
       IN  tickers' = IF outcome = "null"
                      THEN tickers
                      ELSE (fetches[i].exchange :>
                                [bid |-> OrZero(ccxtTicker, "bid"),
                                 ask |-> OrZero(ccxtTicker, "ask"),
                                 timestamp |-> timestamp])
                               @@ tickers
    /\ UNCHANGED <<lastObserved, builtFrom>>
    /\ UNCHANGED scannerVars
    /\ UNCHANGED pipelineVars
    /\ UNCHANGED cooldownVars
    /\ UNCHANGED <<isRunning, emergencyStop, tracker>>
    /\ UNCHANGED <<clockVars, processVars, utilityVars>>

RECURSIVE MinOf(_)
MinOf(S) ==
    LET x == CHOOSE y \in S : TRUE
    IN  IF S = {x} THEN x
        ELSE LET m == MinOf(S \ {x}) IN IF x < m THEN x ELSE m

(***************************************************************************)
(* scanSimpleArbitrage of a suspended scan(): getTicker for every exchange *)
(* of the strategy; with data from at least two exchanges                  *)
(* findSimpleArbitrageOpportunities builds and stores an opportunity.      *)
(***************************************************************************)
ScanDeliverFromCache ==
    /\ scansInFlight > 0
    /\ LET data == [e \in Exchanges |-> getTicker(tickers, e)]
           present == {e \in Exchanges : data[e] # <<>>}
           stamps == {data[e][1].timestamp : e \in present}
       IN  /\ lastObserved' =
                  [e \in present |-> data[e][1].timestamp] @@ lastObserved
           /\ IF Cardinality(present) >= 2 /\ Len(opps) < MaxOpps
              THEN /\ builtFrom' = (Len(opps) + 1 :>
                                       [at |-> now, oldest |-> MinOf(stamps)])
                                   @@ builtFrom
                   /\ ScanDeliverUpTo(MaxOpps, {GoodCandidate})
              ELSE /\ UNCHANGED builtFrom
                   /\ UNCHANGED scannerVars
                   /\ UNCHANGED pipelineVars
                   /\ UNCHANGED cooldownVars
                   /\ UNCHANGED <<isRunning, emergencyStop, tracker>>
                   /\ UNCHANGED <<clockVars, processVars>>
                   /\ UNCHANGED <<breakerVars, trackerApiVars, lifecycleVars>>
    /\ UNCHANGED <<tickers, fetches>>
    /\ UNCHANGED strategyVars

MarketTick == ClockTick(TICKER_UPDATE_INTERVAL)

NextMarket ==
    \/ CoreStart
    \/ ScanTick
    \/ ScanDeliverFromCache
    \/ ScanFinish
    \/ \E exchange \in Exchanges : UpdateTickerBegin(exchange)
    \/ \E i \in 1..Len(fetches), outcome \in FetchOutcomes :
          UpdateTickerEnd(i, outcome, FullTicker)
    \/ MarketTick

SpecMarket == Init /\ [][NextMarket]_vars

(***************************************************************************)
(* The market data cache with exchanges that may leave a side of the quote *)
(* out, at one instant of the clock.                                       *)
(***************************************************************************)
NextTickers ==
    \/ CoreStart
    \/ ScanTick
    \/ ScanDeliverFromCache
    \/ ScanFinish
    \/ \E exchange \in Exchanges : UpdateTickerBegin(exchange)
    \/ \E i \in 1..Len(fetches), outcome \in FetchOutcomes,
             ccxtTicker \in FetchedTickers :
          UpdateTickerEnd(i, outcome, ccxtTicker)

SpecTickers == Init /\ [][NextTickers]_vars

(***************************************************************************)
(* main() after `await matreshka.start()` when the process was launched    *)
(* with --mode=monitor: startMonitorMode registers the 30 s status report. *)
(* The mode is a local of main() and is passed to nothing else.            *)
(***************************************************************************)
StartMonitorMode ==
    /\ mode = "monitor"
    /\ isRunning
    /\ ~monitorInterval
    /\ monitorInterval' = TRUE
    /\ UNCHANGED <<mode, hbCalls, utilityVars>>
    /\ UNCHANGED scannerVars
    /\ UNCHANGED pipelineVars
    /\ UNCHANGED cooldownVars
    /\ UNCHANGED <<isRunning, emergencyStop, tracker>>
    /\ UNCHANGED <<clockVars, marketVars>>

NextMonitor ==
    \/ CoreStart
    \/ StartMonitorMode
    \/ ScanTick
    \/ ScanDeliver
    \/ ScanFinish
    \/ \E id \in Ids : RiskResolved(id)
    \/ \E id \in Ids : PortfolioResolved(id)
    \/ \E id \in Ids, listenerThrows \in BOOLEAN :
          ExecutionTimerFired(id, listenerThrows)

SpecMonitor == InitMonitor /\ [][NextMonitor]_vars

(***************************************************************************)
(* HummingbotConnector.executeArbitrageOpportunity                         *)
(***************************************************************************)
\* createExecutionPlan: one step per path, sorted by step number.
createExecutionPlan(paths) ==
    [k \in 1..Len(paths) |->
        paths[CHOOSE i \in 1..Len(paths) :
                  Cardinality({j \in 1..Len(paths) :
                                  paths[j].step < paths[i].step}) = k - 1]]

\* The call up to its first await.  createExecutionPlan throws when a step
\* has no instance assigned; the catch block returns false.
HbExecute(opportunity, assigned) ==
    /\ Len(hbCalls) < MaxCalls
    /\ hbCalls' = Append(hbCalls,
           IF assigned
           THEN [plan |-> createExecutionPlan(opportunity.paths), next |-> 1,
                 orders |-> <<>>, result |-> "pending"]
           ELSE [plan |-> <<>>, next |-> 1, orders |-> <<>>,
                 result |-> "false"])
    /\ UNCHANGED <<mode, monitorInterval, utilityVars>>
    /\ UNCHANGED scannerVars
    /\ UNCHANGED pipelineVars
    /\ UNCHANGED cooldownVars
    /\ UNCHANGED <<isRunning, emergencyStop, tracker>>
    /\ UNCHANGED <<clockVars, marketVars>>

\* The loop of executeArbitrageOpportunity without its `if (!success)
\* return false`: every step of the plan is submitted, and the outcome is
\* the one of the last step.
HbStepDoneGoingOn(c, success) ==
    /\ c \in 1..Len(hbCalls)
    /\ hbCalls[c].result = "pending"
    /\ LET call == hbCalls[c]
           step == call.plan[call.next]
           order == [step |-> step.step, exchange |-> step.exchange,
                     symbol |-> step.symbol, side |-> step.side,
                     amount |-> step.amount, success |-> success]
       IN  hbCalls' = [hbCalls EXCEPT ![c] =
               [call EXCEPT
                   !.orders = Append(@, order),
                   !.next = IF call.next < Len(call.plan) THEN @ + 1 ELSE @,
                   !.result = IF call.next < Len(call.plan) THEN "pending"
                              ELSE IF success THEN "true" ELSE "false"]]
    /\ UNCHANGED <<mode, monitorInterval, utilityVars>>
    /\ UNCHANGED scannerVars
    /\ UNCHANGED pipelineVars
    /\ UNCHANGED cooldownVars
    /\ UNCHANGED <<isRunning, emergencyStop, tracker>>
    /\ UNCHANGED <<clockVars, marketVars>>

\* executeStep of the next step resolved: placeOrder was sent to the step's
\* instance and reported success or not.  The loop returns false at the
\* first failure, goes on to the next step otherwise and returns true after
\* the last.
HbStepDone(c, success) ==
    /\ c \in 1..Len(hbCalls)
    /\ hbCalls[c].result = "pending"
    /\ LET call == hbCalls[c]
           step == call.plan[call.next]
           order == [step |-> step.step, exchange |-> step.exchange,
                     symbol |-> step.symbol, side |-> step.side,
                     amount |-> step.amount, success |-> success]
       IN  hbCalls' = [hbCalls EXCEPT ![c] =
               [call EXCEPT
                   !.orders = Append(@, order),
                   !.next = IF success /\ call.next < Len(call.plan)
                            THEN @ + 1 ELSE @,
                   !.result = IF ~success THEN "false"
                              ELSE IF call.next = Len(call.plan) THEN "true"
                              ELSE "pending"]]
    /\ UNCHANGED <<mode, monitorInterval, utilityVars>>
    /\ UNCHANGED scannerVars
    /\ UNCHANGED pipelineVars
    /\ UNCHANGED cooldownVars
    /\ UNCHANGED <<isRunning, emergencyStop, tracker>>
    /\ UNCHANGED <<clockVars, marketVars>>

\* The opportunities handed to the connector: the scanner's, and one whose
\* legs are listed last step first.
HbOpportunities ==
    Candidates \cup {[GoodCandidate EXCEPT !.paths = <<@[2], @[1]>>]}

NextHummingbot ==
    \/ \E opportunity \in HbOpportunities, assigned \in BOOLEAN :
          HbExecute(opportunity, assigned)
    \/ \E c \in 1..Len(hbCalls), success \in BOOLEAN : HbStepDone(c, success)

SpecHummingbot == Init /\ [][NextHummingbot]_vars

(***************************************************************************)
(* ErrorHandler: the circuit breakers.  handle(error) updates the breaker  *)
(* of the error's exchange (one error category is followed, so a key is an *)
(* exchange).  severe stands for severity HIGH or CRITICAL.                *)
(***************************************************************************)
CircuitWindowMs == 5 * 60 * 1000
HalfOpenAfterMs == 10 * 60 * 1000

\* The breaker updateCircuitBreaker starts from when the key has none.
NewBreaker == [failures |-> 0, lastFailure |-> 0, state |-> "closed"]

breakerOf(breakers, key) ==
    IF key \in DOMAIN breakers THEN breakers[key] ELSE NewBreaker

\* updateCircuitBreaker with a recovery that closes the breaker and clears
\* its failures.
updateCircuitBreakerClosing(breakers, key, severe, t) ==
    LET breaker == breakerOf(breakers, key)
        counted == [breaker EXCEPT !.failures = @ + 1, !.lastFailure = t]
        updated ==
            IF severe
            THEN IF /\ counted.failures >= CIRCUIT_FAILURES
                    /\ t - counted.lastFailure < CircuitWindowMs
                 THEN [counted EXCEPT !.state = "open"]
                 ELSE counted
            ELSE IF /\ breaker.state = "open"
                    /\ t - breaker.lastFailure > HalfOpenAfterMs
                 THEN [breaker EXCEPT !.state = "closed", !.failures = 0]
                 ELSE breaker
    IN  (key :> updated) @@ breakers

\* ErrorHandler.updateCircuitBreaker at Date.now() = t: the Map afterwards.
updateCircuitBreaker(breakers, key, severe, t) ==
    LET breaker == breakerOf(breakers, key)
        counted == [breaker EXCEPT !.failures = @ + 1, !.lastFailure = t]
        updated ==
            IF severe
            THEN IF /\ counted.failures >= CIRCUIT_FAILURES
                    /\ t - counted.lastFailure < CircuitWindowMs
                 THEN [counted EXCEPT !.state = "open"]
                 ELSE counted
            ELSE IF /\ breaker.state = "open"
                    /\ t - breaker.lastFailure > HalfOpenAfterMs
                 THEN [breaker EXCEPT
                          !.state = "half-open",
                          !.failures = IF @ > 0 THEN @ - 1 ELSE 0]
                 ELSE breaker
    IN  (key :> updated) @@ breakers

\* ErrorHandler.isCircuitBreakerOpen
isCircuitBreakerOpen(breakers, key) ==
    key \in DOMAIN breakers /\ breakers[key].state = "open"

\* ErrorHandler.handle for an error whose context names an exchange.
HandleError(exchange, severe) ==
    /\ severe => breakerOf(circuitBreakers, exchange).failures < MaxFailures
    /\ circuitBreakers' =
           updateCircuitBreaker(circuitBreakers, exchange, severe, now)
    /\ failureTimes' =
           IF severe
           THEN (exchange :>
                    Append(IF exchange \in DOMAIN failureTimes
                           THEN failureTimes[exchange] ELSE <<>>, now))
                @@ failureTimes
           ELSE failureTimes
    /\ UNCHANGED scannerVars
    /\ UNCHANGED pipelineVars
    /\ UNCHANGED cooldownVars
    /\ UNCHANGED <<isRunning, emergencyStop, tracker>>
    /\ UNCHANGED <<clockVars, marketVars, processVars>>
    /\ UNCHANGED <<trackerApiVars, strategyVars, lifecycleVars>>

\* ErrorHandler.resetCircuitBreakers
ResetCircuitBreakers ==
    /\ circuitBreakers # <<>>
    /\ circuitBreakers' = <<>>
    /\ failureTimes' = <<>>
    /\ UNCHANGED scannerVars
    /\ UNCHANGED pipelineVars
    /\ UNCHANGED cooldownVars
    /\ UNCHANGED <<isRunning, emergencyStop, tracker>>
    /\ UNCHANGED <<clockVars, marketVars, processVars>>
    /\ UNCHANGED <<trackerApiVars, strategyVars, lifecycleVars>>

\* The breakers are watched every five minutes.
BreakerTick == ClockTick(CircuitWindowMs)

NextBreaker ==
    \/ \E exchange \in Exchanges, severe \in BOOLEAN :
          HandleError(exchange, severe)
    \/ ResetCircuitBreakers
    \/ BreakerTick

SpecBreaker == Init /\ [][NextBreaker]_vars

(***************************************************************************)
(* The PerformanceTracker driven through its public methods, as the        *)
(* supervisor's handlers of executionStarted, executionCompleted and       *)
(* executionFailed drive it, with reset() called at any moment.  handed    *)
(* keeps, per execution object, the object as the latest call received it  *)
(* and as the call left it.  An object whose execution has ended makes     *)
(* room for the next execution.                                            *)
(***************************************************************************)
\* handleExecutionStarted: recordExecutionStart(execution)
TrackerStartUpTo(limit, id) ==
    /\ tracker.totalTrades < limit
    /\ id \in DOMAIN handed => handed[id].call # "start"
    /\ LET execution == NewExecution(id)
       IN  /\ tracker' = recordExecutionStart(tracker)
           /\ handed' = (id :> [given |-> execution,
                                execution |-> execution,
                                call |-> "start"]) @@ handed
    /\ UNCHANGED scannerVars
    /\ UNCHANGED pipelineVars
    /\ UNCHANGED cooldownVars
    /\ UNCHANGED <<isRunning, emergencyStop>>
    /\ UNCHANGED <<clockVars, marketVars, processVars>>
    /\ UNCHANGED <<breakerVars, strategyVars, lifecycleVars>>

\* handleExecutionCompleted: recordExecutionComplete(execution), with the
\* execution as executeOpportunity completed it.
TrackerCompleteUpTo(limit, id, profit) ==
    /\ tracker.successfulTrades < limit
    /\ id \in DOMAIN handed
    /\ handed[id].call = "start"
    /\ LET execution == [handed[id].execution EXCEPT
                             !.status = "completed",
                             !.totalProfit = profit,
                             !.executionTime = MockExecutionMs]
       IN  /\ tracker' = recordExecutionComplete(tracker, execution)
           /\ handed' = [handed EXCEPT ![id] = [given |-> execution,
                                                execution |-> execution,
                                                call |-> "complete"]]
    /\ UNCHANGED scannerVars
    /\ UNCHANGED pipelineVars
    /\ UNCHANGED cooldownVars
    /\ UNCHANGED <<isRunning, emergencyStop>>
    /\ UNCHANGED <<clockVars, marketVars, processVars>>
    /\ UNCHANGED <<breakerVars, strategyVars, lifecycleVars>>

\* handleExecutionFailed: recordExecutionFailure(execution, error), with the
\* execution as executeOpportunity's catch block left it.
TrackerFailure(id) ==
    /\ tracker.executionsLength < MaxTrades
    /\ id \in DOMAIN handed
    /\ handed[id].call = "start"
    /\ LET execution == [handed[id].execution EXCEPT !.status = "failed"]
       IN  /\ tracker' = recordExecutionFailure(tracker, execution)
           /\ handed' = [handed EXCEPT
                  ![id] = [given |-> execution,
                           execution |->
                               executionAfterFailure(execution, "error"),
                           call |-> "failure"]]
    /\ UNCHANGED scannerVars
    /\ UNCHANGED pipelineVars
    /\ UNCHANGED cooldownVars
    /\ UNCHANGED <<isRunning, emergencyStop>>
    /\ UNCHANGED <<clockVars, marketVars, processVars>>
    /\ UNCHANGED <<breakerVars, strategyVars, lifecycleVars>>

\* PerformanceTracker.reset()
TrackerReset ==
    /\ tracker # NewTracker
    /\ tracker' = reset(tracker)
    /\ UNCHANGED handed
    /\ UNCHANGED scannerVars
    /\ UNCHANGED pipelineVars
    /\ UNCHANGED cooldownVars
    /\ UNCHANGED <<isRunning, emergencyStop>>
    /\ UNCHANGED <<clockVars, marketVars, processVars>>
    /\ UNCHANGED <<breakerVars, strategyVars, lifecycleVars>>

\* The profits of the executions the tracker is told about: the two of the
\* scanner's candidates, and a loss.
TrackedProfits == {GoodCandidate.profit, ThinCandidate.profit, -20000}

NextTracker ==
    \/ \E id \in 1..MaxOpps : TrackerStartUpTo(MaxTrades, id)
    \/ \E id \in 1..MaxOpps, profit \in TrackedProfits :
          TrackerCompleteUpTo(MaxTrades, id, profit)
    \/ \E id \in 1..MaxOpps : TrackerFailure(id)
    \/ TrackerReset

SpecTracker == Init /\ [][NextTracker]_vars

(***************************************************************************)
(* A long run of the tracker: one execution after the other starts and     *)
(* completes with the same profit, MaxRecorded of them.                    *)
(***************************************************************************)
NextLongRun ==
    \/ TrackerStartUpTo(MaxRecorded, 1)
    \/ TrackerCompleteUpTo(MaxRecorded, 1, ThinCandidate.profit)

SpecLongRun == Init /\ [][NextLongRun]_vars

(***************************************************************************)
(* The scanner's strategies on a market snapshot.  market.books is what    *)
(* getTicker and getOrderBook return per exchange for the symbol (<<>> for *)
(* null), market.triangle the three tickers of a triangle on the           *)
(* triangular strategy's exchange, market.funding the spot and perpetual   *)
(* tickers and the funding rate, in millionths.  Fractions (profit rates,  *)
(* the basis) are kept in millionths, which is the unit of profitPercent.  *)
(***************************************************************************)
\* calculateMaxTradeAmount's loop over the levels [price, amount].
RECURSIVE consumeLevels(_, _, _)
consumeLevels(orders, totalAmount, totalValue) ==
    IF orders = <<>> THEN totalAmount
    ELSE LET amount == totalAmount + Head(orders)[2]
             value == totalValue + Head(orders)[1] * Head(orders)[2]
         IN  IF value > 10000 \/ amount > 100
             THEN amount
             ELSE consumeLevels(Tail(orders), amount, value)

\* OpportunityScanner.calculateMaxTradeAmount: 80 % of the liquidity met.
calculateMaxTradeAmount(orders) == (consumeLevels(orders, 0, 0) * 8) \div 10

MinOf3(a, b, c) ==
    IF a <= b /\ a <= c THEN a ELSE IF b <= c THEN b ELSE c

\* scanSimpleArbitrage: the data of the exchanges that have a ticker and an
\* order book, in the order of strategy.exchanges.
exchangeDataOf(books) ==
    SelectSeq([k \in 1..Len(SimpleArbExchanges) |->
                  IF books[SimpleArbExchanges[k]] = <<>>
                  THEN [exchange |-> "none"]
                  ELSE [exchange |-> SimpleArbExchanges[k],
                        ticker |-> books[SimpleArbExchanges[k]][1].ticker,
                        orderbook |->
                            books[SimpleArbExchanges[k]][1].orderbook]],
              LAMBDA d : d.exchange # "none")

\* findSimpleArbitrageOpportunities: <<the opportunity handed to
\* addOpportunity>>, or <<>> when it returns before.  The sorts are stable:
\* among equal prices the exchange that comes first stays first.
findSimpleArbitrageOpportunities(exchangeData) ==
    LET n == Len(exchangeData)
        byAsk == CHOOSE i \in 1..n : \A j \in 1..n :
                    \/ exchangeData[i].ticker.ask < exchangeData[j].ticker.ask
                    \/ /\ exchangeData[i].ticker.ask =
                              exchangeData[j].ticker.ask
                       /\ i <= j
        byBid == CHOOSE i \in 1..n : \A j \in 1..n :
                    \/ exchangeData[i].ticker.bid > exchangeData[j].ticker.bid
                    \/ /\ exchangeData[i].ticker.bid =
                              exchangeData[j].ticker.bid
                       /\ i <= j
        buyExchange == exchangeData[byAsk]
        sellExchange == exchangeData[byBid]
        buyPrice == buyExchange.ticker.ask
        sellPrice == sellExchange.ticker.bid
        profitPercent == ((sellPrice - buyPrice) * 1000000) \div buyPrice
        maxAmount ==
            MinOf3(calculateMaxTradeAmount(buyExchange.orderbook.asks),
                   calculateMaxTradeAmount(sellExchange.orderbook.bids),
                   SIMPLE_ARB_MAX_POSITION)
        opportunity == SimpleArbitrage(buyExchange.exchange,
                                       sellExchange.exchange,
                                       maxAmount, buyPrice, sellPrice)
    IN  IF buyExchange.exchange = sellExchange.exchange THEN <<>>
        ELSE IF profitPercent < SIMPLE_ARB_MIN_PROFIT THEN <<>>
        ELSE IF maxAmount <= 0 THEN <<>>
        ELSE IF opportunity.profitPercent < SIMPLE_ARB_MIN_PROFIT THEN <<>>
        ELSE <<opportunity>>

\* findTriangularOpportunity for the triangle [A, B, C] once its three
\* tickers are there.
findTriangularOpportunity(exchangeId, ticker1, ticker2, ticker3) ==
    LET forwardRate == ticker1.bid * ticker2.bid
        directRate == ticker3.ask
        forwardProfit == ((forwardRate - directRate) * 1000000)
                             \div directRate
        reverseProfit == ((ticker3.bid - ticker2.ask * ticker1.ask) * 1000000)
                             \div (ticker2.ask * ticker1.ask)
        bestProfit == IF forwardProfit > reverseProfit
                      THEN forwardProfit ELSE reverseProfit
        useForward == forwardProfit > reverseProfit
        tradeAmount == IF TRIANGULAR_MAX_POSITION < SimplifiedTradeAmount
                       THEN TRIANGULAR_MAX_POSITION
                       ELSE SimplifiedTradeAmount
        leg(step, symbol, side, amount, price, notional) ==
            [step |-> step, exchange |-> exchangeId, symbol |-> symbol,
             side |-> side, amount |-> amount, price |-> price,
             fee |-> calculateTradingFee(notional)]
        paths ==
            IF useForward
            THEN << leg(1, "A/B", "sell", tradeAmount, ticker1.bid,
                        tradeAmount * ticker1.bid),
                    leg(2, "B/C", "sell", tradeAmount * ticker1.bid,
                        ticker2.bid,
                        tradeAmount * ticker1.bid * ticker2.bid),
                    leg(3, "A/C", "buy", tradeAmount, ticker3.ask,
                        tradeAmount * ticker3.ask) >>
            ELSE << leg(1, "A/C", "sell", tradeAmount, ticker3.bid,
                        tradeAmount * ticker3.bid),
                    leg(2, "B/C", "buy",
                        (tradeAmount * ticker3.bid) \div ticker2.ask,
                        ticker2.ask, tradeAmount * ticker3.bid),
                    leg(3, "A/B", "buy", tradeAmount, ticker1.ask,
                        tradeAmount * ticker1.ask) >>
        totalFees == paths[1].fee + paths[2].fee + paths[3].fee
        grossProfit == (tradeAmount * bestProfit) \div 1000000
        netProfit == grossProfit - totalFees
    IN  IF bestProfit < TRIANGULAR_MIN_PROFIT THEN <<>>
        ELSE << [type |-> "triangular",
                 profit |-> netProfit,
                 profitPercent |-> (netProfit * 1000000) \div tradeAmount,
                 volume |-> tradeAmount,
                 paths |-> paths] >>

\* findFundingRateOpportunity once both tickers are there; fundingRate is
\* what getFundingRate returned.  annualFundingRate, a fraction, is compared
\* with minProfitPercent, a number of percent, as the numbers they are.
findFundingRateOpportunity(spotTicker, perpTicker, fundingRate) ==
    LET annualFundingRate == fundingRate * 3 * 365
        tradeAmount == IF FUNDING_RATE_MAX_POSITION < SimplifiedTradeAmount
                       THEN FUNDING_RATE_MAX_POSITION
                       ELSE SimplifiedTradeAmount
        spotPrice == spotTicker.ask
        perpPrice == perpTicker.bid
        basis == ((perpPrice - spotPrice) * 1000000) \div spotPrice
        absBasis == IF basis < 0 THEN -basis ELSE basis
        expectedProfit ==
            ((fundingRate - absBasis) * tradeAmount * spotPrice)
                \div 1000000
    IN  IF fundingRate <= 0 THEN <<>>
        ELSE IF annualFundingRate < FUNDING_RATE_MIN_PROFIT * 100 THEN <<>>
        ELSE IF expectedProfit <= 0 THEN <<>>
        ELSE << [type |-> "perpetual_spot",
                 profit |-> expectedProfit,
                 profitPercent |-> (expectedProfit * 1000000)
                                       \div (tradeAmount * spotPrice),
                 volume |-> tradeAmount,
                 paths |->
                     << [step |-> 1, exchange |-> SpotExchange,
                         symbol |-> Symbol, side |-> "buy",
                         amount |-> tradeAmount, price |-> spotPrice,
                         fee |-> calculateTradingFee(
                                     tradeAmount * spotPrice)],
                        [step |-> 2, exchange |-> PerpExchange,
                         symbol |-> Symbol, side |-> "sell",
                         amount |-> tradeAmount, price |-> perpPrice,
                         fee |-> calculateTradingFee(
                                     tradeAmount * perpPrice)] >>] >>

\* What an exchange may show for the symbol: nothing; the lowest ask with no
\* asks in the book; the lowest ask with a thin book; a middle quote and the
\* highest bid on deep books.  No book is crossed.
Quote(bid, ask, bidAmount, askAmount) ==
    << [ticker |-> [bid |-> bid, ask |-> ask],
        orderbook |->
            [bids |-> IF bidAmount = 0 THEN <<>> ELSE <<<<bid, bidAmount>>>>,
             asks |-> IF askAmount = 0 THEN <<>>
                      ELSE <<<<ask, askAmount>>>>]] >>

VenueQuotes == {<<>>,
                Quote(990, 1000, 1000, 0),
                Quote(990, 1000, 1000, 5),
                Quote(1000, 1010, 1000, 1000),
                Quote(1030, 1040, 1000, 1000)}

Flat(price) == [bid |-> price, ask |-> price]

\* Triangles: no spread; a forward spread of 100 % on unit prices; a forward
\* and a reverse spread of 2 % on prices of 2, about 50 and 100.
Triangles == {<<Flat(2), Flat(50), Flat(100)>>,
              <<Flat(1), Flat(2), Flat(1)>>,
              <<Flat(2), Flat(51), Flat(100)>>,
              <<Flat(2), Flat(49), Flat(100)>>}

\* Funding situations: the mock rate at its top with no basis, with a basis
\* of 1 %, and a lower rate.
Fundings == {[spot |-> Flat(100), perp |-> Flat(100), fundingRate |-> 1000],
             [spot |-> Flat(100), perp |-> Flat(101), fundingRate |-> 1000],
             [spot |-> Flat(100), perp |-> Flat(100), fundingRate |-> 900]}

Markets ==
    {[books |-> b, triangle |-> t, funding |-> f] :
        b \in [{SimpleArbExchanges[k] : k \in 1..Len(SimpleArbExchanges)}
                  -> VenueQuotes],
        t \in Triangles, f \in Fundings}

InitStrategies ==
    /\ InitCommon("execute")
    /\ market \in Markets

\* A suspended scan() goes on with one strategy: the find* call is logged,
\* and what it returns is stored with addOpportunity and announced.
ScanStrategy(strategy, result) ==
    /\ scansInFlight > 0
    /\ Len(scanLog) < MaxOpps
    /\ scanLog' = Append(scanLog, [strategy |-> strategy, result |-> result])
    /\ UNCHANGED market
    /\ IF result # <<>>
       THEN /\ ScanDeliverUpTo(MaxOpps, {result[1]})
            /\ UNCHANGED marketVars
       ELSE /\ UNCHANGED scannerVars
            /\ UNCHANGED pipelineVars
            /\ UNCHANGED cooldownVars
            /\ UNCHANGED <<isRunning, emergencyStop, tracker>>
            /\ UNCHANGED <<clockVars, marketVars, processVars>>
            /\ UNCHANGED <<breakerVars, trackerApiVars, lifecycleVars>>

\* scanSimpleArbitrage for the symbol
ScanSimpleArbitrage ==
    LET exchangeData == exchangeDataOf(market.books)
    IN  ScanStrategy("simple_arbitrage",
                     IF Len(exchangeData) >= 2
                     THEN findSimpleArbitrageOpportunities(exchangeData)
                     ELSE <<>>)

\* scanTriangularArbitrage for one triangle
ScanTriangularArbitrage ==
    ScanStrategy("triangular",
                 findTriangularOpportunity(TriangularExchange,
                                           market.triangle[1],
                                           market.triangle[2],
                                           market.triangle[3]))

\* scanFundingRateArbitrage for the symbol
ScanFundingRateArbitrage ==
    ScanStrategy("funding_rate",
                 findFundingRateOpportunity(market.funding.spot,
                                            market.funding.perp,
                                            market.funding.fundingRate))

NextStrategies ==
    \/ CoreStart
    \/ ScanTick
    \/ ScanSimpleArbitrage
    \/ ScanTriangularArbitrage
    \/ ScanFundingRateArbitrage
    \/ ScanFinish

SpecStrategies == InitStrategies /\ [][NextStrategies]_vars

(***************************************************************************)
(* MatreshkaCore.start() with its awaits.  The call tests isRunning, then  *)
(* awaits exchangeManager.initialize(), marketDataManager.start(),         *)
(* portfolioManager.initialize() and hummingbotConnector.connect(), and    *)
(* only then starts the scanner, the heartbeat and the main loop and sets  *)
(* isRunning.  Other calls run while it is suspended.                      *)
(***************************************************************************)
\* start() up to its first await: it throws 'System is already running'
\* when isRunning is set, and goes on to initialise the managers otherwise.
StartBegin ==
    /\ IF isRunning
       THEN /\ supervisor.rejected < MaxStarts
            /\ supervisor' = [supervisor EXCEPT !.rejected = @ + 1]
       ELSE /\ cleanupIntervals + supervisor.starting < MaxStarts
            /\ supervisor' = [supervisor EXCEPT !.starting = @ + 1]
    /\ UNCHANGED scannerVars
    /\ UNCHANGED pipelineVars
    /\ UNCHANGED cooldownVars
    /\ UNCHANGED <<isRunning, emergencyStop, tracker, proc>>
    /\ UNCHANGED <<clockVars, marketVars, processVars>>
    /\ UNCHANGED <<breakerVars, trackerApiVars, strategyVars>>

\* start() after its awaits: startOpportunityScanning (the scanner's start()
\* returns when it is scanning already), startHeartbeat, startMainLoop,
\* isRunning = true.
StartFinish ==
    /\ supervisor.starting > 0
    /\ isRunning' = TRUE
    /\ supervisor' = startTimers([supervisor EXCEPT !.starting = @ - 1])
    /\ IF isScanning
       THEN UNCHANGED <<isScanning, isPaused, scanInterval, cleanupIntervals>>
       ELSE /\ isScanning' = TRUE
            /\ isPaused' = FALSE
            /\ scanInterval' = TRUE
            /\ cleanupIntervals' = cleanupIntervals + 1
    /\ UNCHANGED <<scansInFlight, opps, activeOpportunities, expires>>
    /\ UNCHANGED pipelineVars
    /\ UNCHANGED cooldownVars
    /\ UNCHANGED <<emergencyStop, tracker, proc>>
    /\ UNCHANGED <<clockVars, marketVars, processVars>>
    /\ UNCHANGED <<breakerVars, trackerApiVars, strategyVars>>

NextSupervisor ==
    \/ StartBegin
    \/ StartFinish
    \/ CoreStop
    \/ ScanTick
    \/ ScanDeliver
    \/ ScanFinish
    \/ \E id \in Ids : RiskResolved(id)

SpecSupervisor == Init /\ [][NextSupervisor]_vars

(***************************************************************************)
(* SIGINT and SIGTERM.  Two listeners are registered for each: the first   *)
(* when the module is loaded (`process.on('SIGINT', () =>                  *)
(* shutdown('SIGINT'))` with the module's shutdown), the second by main()  *)
(* before its first await (main's own shutdown).  A signal runs them in    *)
(* that order, each up to its first await.                                 *)
(***************************************************************************)
SignalListeners == <<"shutdown", "main.shutdown">>

\* The listeners' synchronous parts: the module's shutdown logs and calls
\* process.exit(0); main's shutdown suspends in `await webMonitor.stop()`
\* with matreshka.stop() still to be called.  Nothing runs after exit.
RECURSIVE emitSignal(_, _)
emitSignal(listeners, p) ==
    IF listeners = <<>> \/ p.exited THEN p
    ELSE emitSignal(Tail(listeners),
                    IF Head(listeners) = "shutdown"
                    THEN [p EXCEPT !.exited = TRUE]
                    ELSE [p EXCEPT !.shuttingDown = TRUE])

\* The process receives SIGINT or SIGTERM.
Signal ==
    /\ ~proc.exited
    /\ proc' = emitSignal(SignalListeners, proc)
    /\ UNCHANGED scannerVars
    /\ UNCHANGED pipelineVars
    /\ UNCHANGED cooldownVars
    /\ UNCHANGED <<isRunning, emergencyStop, tracker, supervisor>>
    /\ UNCHANGED <<clockVars, marketVars, processVars>>
    /\ UNCHANGED <<breakerVars, trackerApiVars, strategyVars>>

\* The system while the process lives: an exited process takes no step.
NextProcess ==
    \/ Signal
    \/ ~proc.exited /\ CoreStart
    \/ ~proc.exited /\ CoreStop
    \/ ~proc.exited /\ ScanTick
    \/ ~proc.exited /\ ScanDeliver
    \/ ~proc.exited /\ ScanFinish
    \/ ~proc.exited /\ \E id \in Ids : RiskResolved(id)
    \/ ~proc.exited /\ \E id \in Ids : PortfolioResolved(id)
    \/ ~proc.exited /\ \E id \in Ids : ExecutionTimerFired(id, FALSE)

SpecProcess == Init /\ [][NextProcess]_vars

(***************************************************************************)
(* Vocabulary of the properties.                                           *)
(***************************************************************************)
TerminalStatuses == {"completed", "failed", "cancelled"}

StatusEdges == {<<"pending", "executing">>, <<"executing", "completed">>,
                <<"executing", "failed">>, <<"executing", "cancelled">>}

\* A trade in status filled that carries out a leg.
FillsLeg(trade, leg) ==
    /\ trade.status = "filled"
    /\ trade.side = leg.side
    /\ trade.filledAmount = leg.amount

\* Sum over the filled trades of +notional for a sell, -notional for a buy,
\* minus the fee.
RECURSIVE RealizedFromTrades(_)
RealizedFromTrades(trades) ==
    IF trades = <<>> THEN 0
    ELSE LET t == Head(trades)
             notional == t.filledAmount * t.averagePrice
         IN  (IF t.status # "filled" THEN 0
              ELSE (IF t.side = "sell" THEN notional ELSE -notional) - t.fee)
             + RealizedFromTrades(Tail(trades))

VolumeOf == [id \in Ids |-> opps[id].volume]

DailyRealizedLoss == -tracker.dailyProfit

(***************************************************************************)
(* C1: once the emergency-stop handling has begun, no executionStarted is  *)
(* emitted any more.                                                       *)
(***************************************************************************)
C1_NoExecutionStartedAfterEmergencyStop ==
    [][emergencyStop # "idle" => executionStarted' = executionStarted]_vars

(***************************************************************************)
(* C2: the values assigned to an execution's status follow pending ->      *)
(* executing -> completed | failed | cancelled, and nothing different is   *)
(* assigned after a terminal status.                                       *)
(***************************************************************************)
C2_StatusFollowsStateMachine ==
    \A id \in DOMAIN statusTrace :
        LET tr == statusTrace[id]
        IN  /\ tr[1] = "pending"
            /\ \A i \in 1..(Len(tr) - 1) :
                  IF tr[i] \in TerminalStatuses
                  THEN tr[i + 1] = tr[i]
                  ELSE <<tr[i], tr[i + 1]>> \in StatusEdges

(***************************************************************************)
(* C3: a completed execution holds a filled trade for every leg of its     *)
(* opportunity.                                                            *)
(***************************************************************************)
C3_CompletedHasFilledTradePerLeg ==
    \A id \in DOMAIN activeExecutions :
        activeExecutions[id].status = "completed" =>
            \A k \in 1..Len(opps[id].paths) :
                \E i \in 1..Len(activeExecutions[id].trades) :
                    FillsLeg(activeExecutions[id].trades[i], opps[id].paths[k])

(***************************************************************************)
(* C4: the totalProfit of a completed execution equals the filled sell     *)
(* notionals minus the filled buy notionals minus the fees of its trades.  *)
(***************************************************************************)
C4_RealizedProfitFromTrades ==
    \A id \in DOMAIN activeExecutions :
        activeExecutions[id].status = "completed" =>
            activeExecutions[id].totalProfit =
                RealizedFromTrades(activeExecutions[id].trades)

(***************************************************************************)
(* C5: while the scanner is paused no opportunity is created, stored or    *)
(* announced with opportunityFound.                                        *)
(***************************************************************************)
C5_NoOpportunityWhilePaused ==
    [][isPaused => /\ opps' = opps
                   /\ \A i \in 1..Len(activeOpportunities') :
                         \E j \in 1..Len(activeOpportunities) :
                             activeOpportunities'[i] = activeOpportunities[j]
      ]_vars

(***************************************************************************)
(* C6: at most 4 executions are in status executing at any moment.         *)
(***************************************************************************)
C6_AtMostFourExecuting == Cardinality(Executing) <= 4

(***************************************************************************)
(* C7: an execution record and an executionStarted event exist only for    *)
(* an opportunity that the risk gate approved and whose portfolio check,   *)
(* made after that approval, allowed it; a rejected opportunity has        *)
(* neither.                                                                *)
(***************************************************************************)
C7_ApprovalPrecedesExecution ==
    /\ portfolioApproved \subseteq riskApproved
    /\ \A id \in executionStarted \cup DOMAIN activeExecutions :
          /\ id \in riskApproved
          /\ id \in portfolioApproved
          /\ assessOpportunity(opps[id]).approved
          /\ canExecuteOpportunity(opps[id]).canExecute
    /\ \A id \in Ids :
          handler[id] \in {"risk", "portfolio"} =>
              id \notin executionStarted \cup DOMAIN activeExecutions

C7_Witness ==
    /\ \E id \in Ids : /\ id \in executionStarted
                       /\ id \in DOMAIN activeExecutions
    /\ \E id \in Ids : /\ ~assessOpportunity(opps[id]).approved
                       /\ handler[id] = "returned"

(***************************************************************************)
(* C8: the volumes of the executions in status executing add up to at most *)
(* maxTotalExposureUSD.                                                    *)
(***************************************************************************)
C8_ExecutingVolumeWithinExposure ==
    SumOver(Executing, VolumeOf) <= maxTotalExposureUSD

(***************************************************************************)
(* C9: while the day's realized loss is at least maxLossPerDayUSD, the     *)
(* risk gate approves nothing and no execution is started.                 *)
(***************************************************************************)
C9_NoApprovalAtDailyLossLimit ==
    [][DailyRealizedLoss >= maxLossPerDayUSD =>
           /\ riskApproved' = riskApproved
           /\ executionStarted' = executionStarted]_vars

(***************************************************************************)
(* C10: during the 60 s after a riskLimitExceeded event the scanner is     *)
(* paused.                                                                 *)
(***************************************************************************)
C10_PausedDuringCooldown == cooldownLeft > 0 => isPaused

(***************************************************************************)
(* Vocabulary of the scanner's properties.                                 *)
(***************************************************************************)
\* (kind, symbol, leg venues in order, leg sides) of an opportunity.
Fingerprint(opportunity) ==
    <<opportunity.type,
      [k \in 1..Len(opportunity.paths) |-> opportunity.paths[k].symbol],
      [k \in 1..Len(opportunity.paths) |-> opportunity.paths[k].exchange],
      [k \in 1..Len(opportunity.paths) |-> opportunity.paths[k].side]>>

Occurrences(seq, x) == Cardinality({i \in 1..Len(seq) : seq[i] = x})

(***************************************************************************)
(* C13: the scanner's active set never holds more than MAX_OPPORTUNITIES   *)
(* (50) opportunities.                                                     *)
(***************************************************************************)
C13_ActiveSetWithinCap == Len(activeOpportunities) <= MAX_OPPORTUNITIES

\* The set is full after more opportunities than its capacity were found.
C13_Witness ==
    /\ Len(activeOpportunities) = MAX_OPPORTUNITIES
    /\ Len(opps) > MAX_OPPORTUNITIES
    /\ activeOpportunities[1] > 1

(***************************************************************************)
(* C14: no two opportunities of the scanner's active set have the same     *)
(* fingerprint.                                                            *)
(***************************************************************************)
C14_ActiveFingerprintsDistinct ==
    \A i, j \in 1..Len(activeOpportunities) :
        i # j => Fingerprint(opps[activeOpportunities[i]])
                     # Fingerprint(opps[activeOpportunities[j]])

(***************************************************************************)
(* C15: when an opportunity is found while the active set is full, every   *)
(* opportunity that leaves the set has the lowest profit of the set.       *)
(***************************************************************************)
C15_EvictsLowestProfit ==
    [][(opps' # opps /\ Len(activeOpportunities) >= MAX_OPPORTUNITIES) =>
          \A i \in 1..Len(activeOpportunities) :
              Occurrences(activeOpportunities', activeOpportunities[i]) = 0 =>
                  \A j \in 1..Len(activeOpportunities) :
                      opps[activeOpportunities[i]].profit
                          <= opps[activeOpportunities[j]].profit
      ]_vars

(***************************************************************************)
(* C16: an expiry sweep removes exactly the stored opportunities with      *)
(* now >= expires, emits opportunityExpired once for each of them and for  *)
(* no other, and keeps every opportunity with now < expires.               *)
(***************************************************************************)
C16_SweepRemovesExactlyExpired ==
    [][lastSweep' # lastSweep =>
          \A i \in 1..Len(activeOpportunities) :
              LET id == activeOpportunities[i]
                  expired == now >= expires[id]
              IN  /\ Occurrences(activeOpportunities', id) =
                         IF expired THEN 0 ELSE 1
                  /\ Occurrences(expiredEmitted', id) =
                         Occurrences(expiredEmitted, id)
                             + (IF expired THEN 1 ELSE 0)
      ]_vars

(***************************************************************************)
(* C17: no opportunity both had an execution started and was announced as  *)
(* expired.                                                                *)
(***************************************************************************)
C17_StartedAndExpiredExclusive ==
    \A id \in executionStarted : Occurrences(expiredEmitted, id) = 0

(***************************************************************************)
(* C20: in every step taken while the scanner is stopped no opportunity is *)
(* created or announced, and the active set is empty after the step.       *)
(***************************************************************************)
C20_NothingFoundWhileStopped ==
    [][~isScanning => /\ opps' = opps
                      /\ activeOpportunities' = <<>>]_vars

(***************************************************************************)
(* C11: per exchange, the timestamp of the ticker a getTicker call returns *)
(* is never older than the one the previous call returned.                 *)
(***************************************************************************)
C11_TickerTimestampsNeverDecrease ==
    [][\A e \in DOMAIN lastObserved \cap DOMAIN lastObserved' :
           lastObserved'[e] >= lastObserved[e]]_vars

(***************************************************************************)
(* C12: every opportunity built from the cache used only snapshots that    *)
(* were at most STALE_AFTER old when it was built.                         *)
(***************************************************************************)
C12_NoOpportunityFromStaleTicker ==
    \A id \in DOMAIN builtFrom :
        builtFrom[id].at - builtFrom[id].oldest <= STALE_AFTER

(***************************************************************************)
(* C18: in monitor mode no execution is started: no executionStarted is    *)
(* emitted and no execution record is created.                             *)
(***************************************************************************)
C18_MonitorStartsNoExecution ==
    mode = "monitor" => /\ executionStarted = {}
                        /\ DOMAIN activeExecutions = {}

\* An order that undoes a filled order: same venue, opposite side, at most
\* the filled amount.
Compensates(order, filled) ==
    /\ order.exchange = filled.exchange
    /\ order.side # filled.side
    /\ order.amount <= filled.amount

(***************************************************************************)
(* C19: when an execution has ended in failure, every leg that had been    *)
(* filled before the failing leg has a compensating order placed after it. *)
(***************************************************************************)
C19_FailedLegIsCompensated ==
    \A c \in 1..Len(hbCalls) :
        hbCalls[c].result = "false" =>
            \A k \in 1..Len(hbCalls[c].orders) :
                hbCalls[c].orders[k].success =>
                    \E m \in (k + 1)..Len(hbCalls[c].orders) :
                        Compensates(hbCalls[c].orders[m], hbCalls[c].orders[k])
(***************************************************************************)
(* C21: when the supervisor's stop() completes, no execution is still      *)
(* executing, and while the supervisor stays stopped no execution reaches  *)
(* a terminal status (no executionCompleted or executionFailed is emitted  *)
(* after systemStopped).                                                   *)
(***************************************************************************)
C21_StopLeavesNothingExecuting ==
    [][/\ (isRunning /\ ~isRunning') =>
              \A id \in DOMAIN activeExecutions' :
                 activeExecutions'[id].status # "executing"
       /\ (~isRunning /\ ~isRunning') =>
              \A id \in DOMAIN statusTrace :
                 statusTrace'[id] = statusTrace[id]]_vars

(***************************************************************************)
(* C22: a venue's breaker goes from closed to open only when five failures *)
(* of that venue lie within one five-minute window (the window's end       *)
(* points counted in).                                                     *)
(***************************************************************************)
C22_OpensOnlyOnFiveFailuresInWindow ==
    [][\A key \in DOMAIN circuitBreakers' :
          (/\ breakerOf(circuitBreakers, key).state = "closed"
           /\ circuitBreakers'[key].state = "open")
          => LET times == failureTimes'[key]
                 n == Len(times)
             IN  /\ n >= 5
                 /\ times[n] - times[n - 4] <= 5 * 60 * 1000]_vars

(***************************************************************************)
(* C28: a breaker whose last failure is more than ten minutes old is not   *)
(* reported open any more, whether or not another error of the venue was   *)
(* handled in the meantime.                                                *)
(***************************************************************************)
C28_OpenBreakerExpiresByItself ==
    \A key \in DOMAIN circuitBreakers :
       now - circuitBreakers[key].lastFailure > 10 * 60 * 1000
       => ~isCircuitBreakerOpen(circuitBreakers, key)

(***************************************************************************)
(* C23: successfulTrades never exceeds totalTrades, whatever the tracker   *)
(* is told, as long as every completion and every failure it is told       *)
(* about belongs to an execution whose start it was told about before.     *)
(***************************************************************************)
C23_SuccessfulWithinTotal ==
    tracker.successfulTrades <= tracker.totalTrades

(***************************************************************************)
(* C24: the tracker's list of per-execution profits and its list of        *)
(* execution times hold at most 1000 entries each (the most recent         *)
(* completions).                                                           *)
(***************************************************************************)
C24_ListsKeepLastThousand ==
    /\ Len(tracker.profits) <= 1000
    /\ Len(tracker.executionTimes) <= 1000

(***************************************************************************)
(* C25: the tracker only reads the executions it is told about: after      *)
(* recordExecutionStart, recordExecutionComplete and                       *)
(* recordExecutionFailure the execution's status, trades and errors are    *)
(* what the caller handed in.                                              *)
(***************************************************************************)
C25_TrackerLeavesExecutionsAlone ==
    \A id \in DOMAIN handed :
       /\ handed[id].execution.status = handed[id].given.status
       /\ handed[id].execution.trades = handed[id].given.trades
       /\ handed[id].execution.errors = handed[id].given.errors

(***************************************************************************)
(* C27: assessOpportunity is a function of the opportunity (and the fixed  *)
(* risk configuration): two opportunities with the same fields get the     *)
(* same decision and reason, whatever happened in between, and the step    *)
(* that takes the decision changes nothing but the handler's own position: *)
(* no execution, tracker, scanner or cooldown state, and no event.         *)
(***************************************************************************)
C27_AssessmentIsPure ==
    /\ [](\A i, j \in DOMAIN riskDecision :
             opps[i] = opps[j] => riskDecision[i] = riskDecision[j])
    /\ [][riskDecision' # riskDecision =>
             /\ UNCHANGED <<activeExecutions, statusTrace, executionStarted,
                            terminalEvents,
                            portfolioApproved, tracker, isRunning,
                            emergencyStop>>
             /\ UNCHANGED <<scannerVars, cooldownVars, expiredEmitted>>]_vars

\* Two opportunities with the same fields were assessed, the later one
\* while the earlier one is being executed.
C27_Witness ==
    \E i, j \in DOMAIN riskDecision :
       /\ i < j
       /\ opps[i] = opps[j]
       /\ riskDecision[i].approved
       /\ i \in DOMAIN activeExecutions
       /\ activeExecutions[i].status = "executing"
       /\ handler[j] = "portfolio"

(***************************************************************************)
(* Vocabulary of the strategies' properties.                               *)
(***************************************************************************)
\* Sum over the legs of +amount * price for a sell, -amount * price for a
\* buy, minus the leg's fee.
RECURSIVE LegsNet(_)
LegsNet(paths) ==
    IF paths = <<>> THEN 0
    ELSE LET leg == Head(paths)
             notional == leg.amount * leg.price
         IN  (IF leg.side = "sell" THEN notional ELSE -notional) - leg.fee
             + LegsNet(Tail(paths))

\* Buying at exchange b's ask and selling at exchange s's bid: the tradable
\* size and the opportunity of that size.
PairSize(d, b, s) ==
    MinOf3(calculateMaxTradeAmount(d[b].orderbook.asks),
           calculateMaxTradeAmount(d[s].orderbook.bids),
           SIMPLE_ARB_MAX_POSITION)

PairCandidate(d, b, s) ==
    SimpleArbitrage(d[b].exchange, d[s].exchange, PairSize(d, b, s),
                    d[b].ticker.ask, d[s].ticker.bid)

\* The ordered pairs of distinct exchanges with a positive tradable size and
\* a net percentage of at least the strategy's minimum.
Qualifying(d) ==
    {pair \in (1..Len(d)) \X (1..Len(d)) :
        /\ pair[1] # pair[2]
        /\ PairSize(d, pair[1], pair[2]) > 0
        /\ PairCandidate(d, pair[1], pair[2]).profitPercent
               >= SIMPLE_ARB_MIN_PROFIT}

(***************************************************************************)
(* C26: the projected profit of every stored opportunity, of whichever     *)
(* strategy, is the sum of its sell legs' amount * price, minus the sum of *)
(* its buy legs' amount * price, minus the sum of its legs' fees.          *)
(***************************************************************************)
C26_ProfitIsNetOfLegs ==
    \A id \in Ids : opps[id].profit = LegsNet(opps[id].paths)

(***************************************************************************)
(* C29: a scan of the simple strategy stores an opportunity for the symbol *)
(* exactly when some ordered pair of distinct exchanges has a positive     *)
(* tradable size and a net percentage of at least the strategy's minimum,  *)
(* and the opportunity stored has the highest net profit of these pairs.   *)
(***************************************************************************)
C29_StoresBestQualifyingPair ==
    \A k \in 1..Len(scanLog) :
       scanLog[k].strategy = "simple_arbitrage" =>
          LET d == exchangeDataOf(market.books)
              stored == scanLog[k].result
          IN  /\ stored # <<>> <=> Qualifying(d) # {}
              /\ stored # <<>> =>
                    \A pair \in Qualifying(d) :
                       stored[1].profit >=
                           PairCandidate(d, pair[1], pair[2]).profit

(***************************************************************************)
(* C30: a triangular opportunity is stored only with a net percentage,     *)
(* after the fees of its three legs, of at least the triangular strategy's *)
(* minimum profit.                                                         *)
(***************************************************************************)
C30_TriangularNetAboveMinimum ==
    \A id \in Ids :
       opps[id].type = "triangular" =>
          opps[id].profitPercent >= TRIANGULAR_MIN_PROFIT

(***************************************************************************)
(* C31: for every simple or funding-rate opportunity the scanner stores,   *)
(* the size of the buy leg times its price (the buy exchange's ask, the    *)
(* spot ask) is at most the strategy's maximum position, in quote units.   *)
(***************************************************************************)
maxPositionSizeOf(type) ==
    IF type = "simple" THEN SIMPLE_ARB_MAX_POSITION
    ELSE IF type = "perpetual_spot" THEN FUNDING_RATE_MAX_POSITION
    ELSE TRIANGULAR_MAX_POSITION

C31_BuyLegWithinMaxPosition ==
    \A id \in Ids :
       opps[id].type \in {"simple", "perpetual_spot"} =>
          \A k \in 1..Len(opps[id].paths) :
             opps[id].paths[k].side = "buy" =>
                opps[id].paths[k].amount * opps[id].paths[k].price
                    <= maxPositionSizeOf(opps[id].type)

(***************************************************************************)
(* C32: every ticker held in the market data cache has 0 < bid <= ask; a   *)
(* fetched ticker with a missing or zero bid or ask is not stored.         *)
(***************************************************************************)
C32_CachedTickersHaveBidBelowAsk ==
    \A e \in DOMAIN tickers :
       /\ 0 < tickers[e].bid
       /\ tickers[e].bid <= tickers[e].ask

RealizedAfter(k) == SumOver(1..k, tracker.profits)

MaxOf(S) == CHOOSE x \in S : \A y \in S : y <= x

\* The largest cumulative realized profit after the first k completions,
\* at least 0.
PeakAfter(k) == MaxOf({0} \cup {RealizedAfter(j) : j \in 1..k})

\* (peak - realized) / peak after the first k completions, 0 while the peak
\* is not positive.
DrawdownAfter(k) ==
    IF PeakAfter(k) > 0
    THEN ((PeakAfter(k) - RealizedAfter(k)) * DrawdownScale) \div PeakAfter(k)
    ELSE 0

(***************************************************************************)
(* C34: after every recordExecutionComplete, and until reset, peakValue is *)
(* the largest cumulative realized profit reached so far (at least 0) and  *)
(* is at least totalProfitUSD, maxDrawdown is the largest value that       *)
(* (peak - realized) / peak took while the peak was positive, and neither  *)
(* value ever decreases.                                                   *)
(***************************************************************************)
C34_PeakAndDrawdownAreRunningMaxima ==
    /\ [](LET n == Len(tracker.profits)
          IN  /\ tracker.totalProfitUSD = RealizedAfter(n)
              /\ tracker.peakValue = PeakAfter(n)
              /\ tracker.peakValue >= tracker.totalProfitUSD
              /\ tracker.peakValue >= 0
              /\ tracker.maxDrawdown =
                     MaxOf({0} \cup {DrawdownAfter(k) : k \in 1..n}))
    /\ [][tracker' # NewTracker =>
             /\ tracker'.peakValue >= tracker.peakValue
             /\ tracker'.maxDrawdown >= tracker.maxDrawdown]_vars

\* A profit, then a loss, then a smaller profit were recorded: the peak is
\* the first total, above the current one, and the drawdown is the one
\* reached after the loss.
C34_Witness ==
    /\ Len(tracker.profits) = 3
    /\ tracker.profits[1] > 0
    /\ tracker.profits[2] < 0
    /\ tracker.profits[3] > 0
    /\ tracker.peakValue = tracker.profits[1]
    /\ tracker.peakValue > tracker.totalProfitUSD
    /\ tracker.maxDrawdown = DrawdownAfter(2)
    /\ tracker.maxDrawdown > DrawdownAfter(3)

(***************************************************************************)
(* C35: every execution that emitted executionStarted emits exactly one    *)
(* terminal event, executionCompleted or executionFailed and never both    *)
(* (nor none once executeOpportunity has returned), and the tracker        *)
(* records that outcome exactly once.                                      *)
(***************************************************************************)
C35_OneTerminalEventPerExecution ==
    /\ \A id \in executionStarted :
          /\ Len(terminalEvents[id]) <= 1
          /\ handler[id] = "returned" => Len(terminalEvents[id]) = 1
    /\ tracker.executionsLength =
           Cardinality({id \in executionStarted : terminalEvents[id] # <<>>})
    /\ tracker.successfulTrades =
           Cardinality({id \in executionStarted :
                           terminalEvents[id] = <<"executionCompleted">>})

(***************************************************************************)
(* C36: a start() call made while an earlier start() is in progress or has *)
(* succeeded, with no stop() in between, is rejected without initialising  *)
(* any component again: a call passes the isRunning test only when no      *)
(* other call is in progress and the system is not running, so at most one *)
(* heartbeat timer and one main-loop timer exist at any time.              *)
(***************************************************************************)
C36_OverlappingStartIsRejected ==
    /\ [](/\ supervisor.heartbeatIntervals <= 1
          /\ supervisor.mainLoopIntervals <= 1)
    /\ [][supervisor'.starting > supervisor.starting =>
             /\ ~isRunning
             /\ supervisor.starting = 0]_vars

(***************************************************************************)
(* C37: after any sequence of start() and stop() calls the scanner owns at *)
(* most one scan timer and one expiry-sweep timer, and after stop() none   *)
(* of its timers is left to fire.                                          *)
(***************************************************************************)
C37_ScannerTimersClearedByStop ==
    /\ cleanupIntervals <= 1
    /\ ~isScanning => (~scanInterval /\ cleanupIntervals = 0)

(***************************************************************************)
(* C40: on SIGINT or SIGTERM the process exits only after the supervisor's *)
(* stop() has completed: when it has exited the supervisor is not running  *)
(* and the scanner and the market data manager are shut down.              *)
(***************************************************************************)
C40_ExitOnlyAfterStop ==
    proc.exited => /\ ~isRunning
                   /\ ~isScanning
                   /\ ~scanInterval
                   /\ tickers = <<>>

(***************************************************************************)
(* C38: once a circuit breaker has left the closed state, no handled error *)
(* returns it to closed: it stays open or half-open until                  *)
(* resetCircuitBreakers clears the breakers.                               *)
(***************************************************************************)
C38_BreakerNeverClosesAgain ==
    [][\A key \in DOMAIN circuitBreakers :
          (circuitBreakers[key].state # "closed" /\ circuitBreakers' # <<>>)
             => /\ key \in DOMAIN circuitBreakers'
                /\ circuitBreakers'[key].state \in {"open", "half-open"}]_vars

\* A breaker opened at its fifth failure, went half-open on an error
\* handled more than ten minutes later, and opened again at the next
\* failure.
C38_Witness ==
    \E key \in DOMAIN circuitBreakers :
       /\ circuitBreakers[key].state = "open"
       /\ Len(failureTimes[key]) = CIRCUIT_FAILURES + 1
       /\ failureTimes[key][CIRCUIT_FAILURES + 1]
              > failureTimes[key][CIRCUIT_FAILURES] + HalfOpenAfterMs

(***************************************************************************)
(* C39: getActiveExecutions returns only executions in status pending or   *)
(* executing: an execution leaves the engine's active map when it          *)
(* completes or fails, so the map is never larger than the number of       *)
(* executions in flight.                                                   *)
(***************************************************************************)
C39_ActiveExecutionsAreInFlight ==
    LET returned == getActiveExecutions(activeExecutions)
    IN  /\ \A execution \in returned :
              execution.status \in {"pending", "executing"}
        /\ Cardinality(returned) =
               Cardinality({id \in Ids : handler[id] = "executing"})

====
